---- MODULE Spec2Model ----
(***************************************************************************)
(* A model of solc-switch's release synchronisation and binary download    *)
(* subsystem (syncer.go, releases.go, helpers.go, distribution.go).        *)
(*                                                                         *)
(* Strings that the code inspects (tags, asset names, file names) are      *)
(* sequences of characters or of string chunks, so that prefix stripping   *)
(* and substring search are computed, not assumed.  A Go slice is a record *)
(* [isNil, elems] because the code and encoding/json tell a nil slice from *)
(* an empty one.  JSON text is a sequence of tokens.                       *)
(***************************************************************************)
EXTENDS Integers, Sequences, FiniteSets, TLC

\* ---------------------------------------------------------------- bounds
\* Number of API calls the caller makes in one behaviour.
MaxCalls == 2
\* Number of those calls that may run a download round (Sync, SyncOne,
\* SyncBinaries).
MaxRounds == 1
\* Clock ticks counted after a successful sync before the counter saturates.
MaxElapsed == 1
MaxTagLen == 3
\* Arguments of a CompilerConfig.
MaxArgs == 4

\* ------------------------------------------------------------- constants
\* net/http.StatusOK
StatusOK == 200

\* ---------------------------------------------------------------- strings
\* strings.Contains on chunked strings: sub occurs as a contiguous run of s.
Contains(s, sub) ==
    \E i \in 1..(Len(s) - Len(sub) + 1) : SubSeq(s, i, i + Len(sub) - 1) = sub

\* A variant that strips one leading "v" only.
TrimsLeadingV(versionTag) ==
    IF versionTag # << >> /\ Head(versionTag) = "v" THEN Tail(versionTag)
    ELSE versionTag

\* helpers.go: strings.ReplaceAll(versionTag, "v", "")
getCleanedVersionTag(versionTag) ==
    SelectSeq(versionTag, LAMBDA c : c # "v")

\* distribution.go: the asset token of the platform.
GetDistributionForAsset(goos) ==
    CASE goos = "windows" -> <<"solc-windows">>
      [] goos = "darwin"  -> <<"solc-macos">>
      [] goos = "linux"   -> <<"solc-static-linux">>
      [] OTHER            -> <<"unknown">>

\* ------------------------------------------------------------ Go slices
NilSlice == [isNil |-> TRUE, elems |-> <<>>]
MkSlice(s) == [isNil |-> FALSE, elems |-> s]

\* A variant that puts each new page in front of the pages before it.
AppendAllInFront(all, page) ==
    IF Len(page) = 0 THEN all ELSE MkSlice(page \o all.elems)

\* Go's append(all, page...): appending to a nil slice gives a non-nil one
\* when page is non-empty.
AppendAll(all, page) ==
    IF Len(page) = 0 THEN all ELSE MkSlice(all.elems \o page)

\* ------------------------------------------------------------- releases
Asset(name, url) == [Name |-> name, BrowserDownloadURL |-> url]

RelA == [TagName |-> <<"v", "1">>, Prerelease |-> FALSE,
         Assets |-> << Asset(<<"soljson", ".js">>, "a-js"),
                       Asset(<<"solc-static-linux">>, "a-linux"),
                       Asset(<<"solc-windows", ".exe">>, "a-win") >>]
RelB == [TagName |-> <<"2">>, Prerelease |-> TRUE,
         Assets |-> << Asset(<<"solc-static-linux">>, "b-linux"),
                       Asset(<<"solc-windows", ".exe">>, "b-win"),
                       Asset(<<"solc-windows", ".zip">>, "b-zip") >>]
RelC == [TagName |-> <<"1">>, Prerelease |-> FALSE,
         Assets |-> << Asset(<<"solc-static-linux">>, "c-linux") >>]

RelD == [TagName |-> <<"v", "3">>, Prerelease |-> FALSE,
         Assets |-> << Asset(<<"soljson", ".js">>, "d-js") >>]

Universe == {RelA, RelB, RelC, RelD}

\* The paged listings the remote index can hold (one is chosen in Init).
RemoteChoices ==
    { << <<RelB, RelA>>, <<RelD>> >>,
      << <<RelA, RelC>> >>,
      << >> }

OSNames == {"linux", "windows", "plan9"}

\* ----------------------------------------------------------------- JSON
Tok(k) == [t |-> k]

\* encoding/json.Marshal of one Version / Asset (struct tags of types.go).
AssetToJSON(a) == [name |-> a.Name, browser_download_url |-> a.BrowserDownloadURL]
ToJSON(v) ==
    [t |-> "obj", tag_name |-> v.TagName, prerelease |-> v.Prerelease,
     assets |-> [i \in 1..Len(v.Assets) |-> AssetToJSON(v.Assets[i])]]

\* The remote's objects carry fields the Version struct does not declare.
RemoteJSON(v) ==
    [t |-> "obj", tag_name |-> v.TagName, prerelease |-> v.Prerelease,
     assets |-> [i \in 1..Len(v.Assets) |-> AssetToJSON(v.Assets[i])],
     mentions_count |-> 0]

AssetFromJSON(o) == Asset(o.name, o.browser_download_url)
FromJSON(o) ==
    [TagName |-> o.tag_name, Prerelease |-> o.prerelease,
     Assets |-> [i \in 1..Len(o.assets) |-> AssetFromJSON(o.assets[i])]]

\* json.Marshal([]Version): a nil slice is "null", any other an array.
Marshal(slice) ==
    IF slice.isNil THEN << Tok("null") >>
    ELSE << Tok("[") >> \o [i \in 1..Len(slice.elems) |-> ToJSON(slice.elems[i])]
                        \o << Tok("]") >>

\* json.Unmarshal(data, &versions) with versions a nil []Version.
Unmarshal(data) ==
    IF data = << Tok("null") >> THEN [ok |-> TRUE, val |-> NilSlice]
    ELSE IF /\ Len(data) >= 2
            /\ data[1] = Tok("[")
            /\ data[Len(data)] = Tok("]")
            /\ \A i \in 2..(Len(data) - 1) : data[i].t = "obj"
         THEN [ok |-> TRUE,
               val |-> MkSlice([i \in 1..(Len(data) - 2) |-> FromJSON(data[i + 1])])]
         ELSE [ok |-> FALSE, val |-> NilSlice]

\* Body of listing page n of the remote index: an array, empty past the end.
PageBody(rem, n) ==
    << Tok("[") >>
    \o (IF n <= Len(rem) THEN [i \in 1..Len(rem[n]) |-> RemoteJSON(rem[n][i])]
        ELSE << >>)
    \o << Tok("]") >>

\* A JSON object such as GitHub's {"message": "Not Found"}.
ErrorBody == << Tok("{"), Tok("}") >>

\* Statuses a failing server answers with.
FailureStatuses == { 500 }

\* What one listing request for page n can come back with.  A cancelled
\* context makes http.Client.Do fail.
ListingResponses(rem, n, ctxDone) ==
    IF ctxDone THEN { [kind |-> "doerr", status |-> 0, body |-> << >>] }
    ELSE { [kind |-> "doerr", status |-> 0, body |-> << >>],
           [kind |-> "readerr", status |-> StatusOK, body |-> << >>] }
         \cup { [kind |-> "http", status |-> StatusOK, body |-> PageBody(rem, n)] }
         \cup { [kind |-> "http", status |-> st, body |-> b] :
                    st \in FailureStatuses,
                    b \in { ErrorBody, PageBody(rem, Len(rem) + 1) } }

\* ------------------------------------------------------------ file names
\* syncer.go: fmt.Sprintf("%s/solc-%s", releasesPath, versionTag) [+ ".exe"]
SyncFilename(versionTag, distribution) ==
    << "solc-" >> \o versionTag
    \o (IF distribution = << "solc-windows" >> THEN << ".exe" >> ELSE << >>)

\* A variant that never adds the ".exe" suffix.
BinaryPathNoSuffix(version, distribution) == << "solc-" >> \o version

\* releases.go: filepath.Join(releasesPath, "solc-"+version [+ ".exe"])
BinaryPath(version, distribution) ==
    << "solc-" >> \o version
    \o (IF distribution = << "solc-windows" >> THEN << ".exe" >> ELSE << >>)

DestFiles ==
    { SyncFilename(getCleanedVersionTag(r.TagName), GetDistributionForAsset(o)) :
          r \in Universe, o \in OSNames }

AbsentFile == [exists |-> FALSE, mode |-> "none", content |-> "none"]
ExecFile   == [exists |-> TRUE, mode |-> "rwx", content |-> "complete"]

\* ---------------------------------------------------------------- errors
Err(kind, unit, cause) ==
    [kind |-> kind, unit |-> unit, cause |-> cause, status |-> 0]

\* downloadFile: fmt.Errorf("bad status: %s", resp.Status)
StatusErr(unit, status) ==
    [kind |-> "download", unit |-> unit, cause |-> "status", status |-> status]
NoErr == Err("nil", 0, "")
NoVal == NilSlice
NoArg == [TagName |-> << >>]

\* ----------------------------------------------------------------- state
VARIABLES
    gOOS,           \* what s.gOOSFunc() returns
    ctxDone,        \* s.ctx has been cancelled
    remote,         \* the remote index: a sequence of listing pages
    localReleases,  \* s.localReleases, the in-memory mirror
    file,           \* <releases-dir>/releases.json
    bins,           \* the binary files under the releases directory
    pc,             \* where the calling goroutine is
    op,             \* the API call in progress
    arg,            \* its argument
    page,           \* SyncReleases: page
    allVersions,    \* SyncReleases: allVersions
    sbVersions,     \* SyncBinaries: versions
    limitVersion,   \* SyncBinaries: limitVersion
    idx,            \* SyncBinaries: position of the range loop
    totalDownloads, \* SyncBinaries: totalDownloads
    units,          \* SyncBinaries: the download goroutines, by loop position
    wg,             \* SyncBinaries: the WaitGroup counter
    errorsCh,       \* SyncBinaries: buffered errorsCh
    progressCh,     \* SyncBinaries: number of items buffered in progressCh
    chClosed,       \* SyncBinaries: both channels have been closed
    ret,            \* what the last finished call returned
    prev,           \* what the call before it returned
    calls,          \* number of calls made
    rounds,         \* number of them that were Sync, SyncOne or SyncBinaries
    reqLog,         \* listing requests of the call in progress, with answers
    dlLog,          \* units of the round in progress that sent a download request
    authLog,        \* requests of the call in progress: URL, Authorization header
    fileAtCall,     \* releases.json when the call in progress began
    mirrorAtCall,   \* the mirror when the call in progress began
    binsAtCall,     \* the binaries when the call in progress began
    sinceSync,      \* clock ticks since the last successful SyncReleases, -1: none
    sinceAtCall,    \* sinceSync when the call in progress began
    tagIn,          \* a version tag handed to getCleanedVersionTag
    tagOut,         \* what its successive applications returned
    config,         \* the *Config the caller holds
    manager,        \* the *Solc the caller holds: nil, or its http client's Timeout
    ccArgs,         \* CompilerConfig.Arguments
    ccVersion,      \* CompilerConfig.CompilerVersion
    ccOut,          \* what the last call on the CompilerConfig returned
    tickerPc,       \* the progress ticker goroutine: none, recv, log, exited
    tickBuf,        \* ticks waiting in ticker.C (its buffer holds one)
    tickerStopped,  \* ticker.Stop() has been called
    consumerPc,     \* the progress consumer goroutine: none, recv, incr, exited
    completedDownloads, \* the counter both goroutines use
    logged          \* what the ticker goroutine logged last, -1 before

envVars  == << gOOS, ctxDone, remote >>
tagVars  == << tagIn, tagOut >>
cfgVars  == << config, manager >>
ccVars   == << ccArgs, ccVersion, ccOut >>
hVars    == << tickerPc, tickBuf, tickerStopped, consumerPc, completedDownloads,
               logged >>
srVars   == << page, allVersions >>
sbVars   == << sbVersions, limitVersion, idx, totalDownloads, units, wg,
               errorsCh, progressCh, chClosed >>
callVars == << op, arg, calls, rounds, reqLog, dlLog, authLog, fileAtCall, mirrorAtCall,
               binsAtCall, sinceAtCall >>
vars == << gOOS, ctxDone, remote, localReleases, file, bins, pc, op, arg, page,
           allVersions, sbVersions, limitVersion, idx, totalDownloads, units,
           wg, errorsCh, progressCh, chClosed, ret, prev, calls, rounds, reqLog,
           authLog,
           dlLog, fileAtCall, mirrorAtCall, binsAtCall, sinceSync, sinceAtCall,
           tagIn, tagOut, config, manager, ccArgs, ccVersion, ccOut, tickerPc,
           tickBuf, tickerStopped, consumerPc, completedDownloads, logged >>

\* ---------------------------------------------------------- configuration
\* Paths a Config can be given, and what os.Stat and os.Open find there.
PathKind ==
    [p \in {"releases", "other", "", "gone", "notes.txt", "locked", "hidden"} |->
        CASE p \in {"releases", "other"} -> "dir"
          [] p \in {"", "gone"} -> "missing"
          [] p = "notes.txt" -> "file"
          [] p = "locked" -> "unreadable dir"
          [] p = "hidden" -> "stat fails"]
Paths == DOMAIN PathKind

\* A variant that only asks for the path to exist.
validatePathExistsOnly(path) ==
    IF PathKind[path] = "missing" THEN Err("path does not exist", 0, path)
    ELSE NoErr

\* helpers.go validatePath
validatePath(path) ==
    CASE PathKind[path] = "missing" -> Err("path does not exist", 0, path)
      [] PathKind[path] = "stat fails" -> Err("stat", 0, path)
      [] PathKind[path] = "file" -> Err("path is not a directory", 0, path)
      [] PathKind[path] = "unreadable dir" -> Err("directory is not readable", 0, path)
      [] OTHER -> NoErr

\* The default of Config.httpClientTimeout, in seconds.
httpClientTimeout == 10

\* Timeouts a caller sets (the default, and the 60 s of the README).
Timeouts == { httpClientTimeout, 60 }

\* Values of SOLC_SWITCH_GITHUB_TOKEN: unset, and a token.
Tokens == { "", "ghp_1" }

NilConfig ==
    [isNil |-> TRUE, releasesPath |-> "", releasesUrl |-> "",
     httpClientTimeout |-> 0, personalAccessToken |-> ""]
MkConfig(path, url, timeout, token) ==
    [isNil |-> FALSE, releasesPath |-> path, releasesUrl |-> url,
     httpClientTimeout |-> timeout, personalAccessToken |-> token]

\* NewDefaultConfig, whose releases directory exists here, with a token in
\* the environment.
DefaultConfig == MkConfig("releases", "api", httpClientTimeout, "ghp_1")

\* req.Header.Add("Authorization", fmt.Sprintf("token %s", token)): the
\* header is added whatever the token is.
Authorization(token) == [present |-> TRUE, value |-> << "token ", token >>]

\* Config.Validate
ConfigValidate(c) ==
    IF validatePath(c.releasesPath) # NoErr THEN validatePath(c.releasesPath)
    ELSE IF c.releasesUrl = "" THEN Err("releases url is empty", 0, "")
    ELSE NoErr

\* solc.go New: the error returned (the manager is nil exactly on an error).
NewResult(c) ==
    IF c.isNil THEN Err("config needs to be provided", 0, "")
    ELSE ConfigValidate(c)

NilManager == [isNil |-> TRUE, timeout |-> 0]
\* &http.Client{Timeout: config.GetHttpClientTimeout()}
MkManager(c) == [isNil |-> FALSE, timeout |-> c.httpClientTimeout]

\* ------------------------------------------------------ compiler config
NoCcErr == [kind |-> "nil", arg |-> << >>]
NoCcOut == [op |-> "none", val |-> NilSlice, err |-> NoCcErr]
CcErr(kind, a) == [kind |-> kind, arg |-> a]

\* An option name as a chunked string: "--" and the words joined by "-".
RECURSIVE Dashed(_)
Dashed(words) ==
    IF Len(words) = 1 THEN words
    ELSE << Head(words), "-" >> \o Dashed(Tail(words))
Opt(words) == << "-", "-" >> \o Dashed(words)

\* var allowedArgs
allowedArgs ==
    { << "-" >> } \cup
    { Opt(w) : w \in
        { << "combined", "json" >>, << "optimize" >>, << "optimize", "runs" >>,
          << "evm", "version" >>, << "overwrite" >>, << "libraries" >>,
          << "standard", "json" >>, << "allow", "paths" >>, << "base", "path" >>,
          << "ignore", "missing" >>, << "ast" >>, << "ast", "json" >>,
          << "include", "path" >>, << "output", "dir" >>, << "asm" >>,
          << "bin" >>, << "abi" >>, << "asm", "json" >>, << "bin", "runtime" >>,
          << "ir" >>, << "opcodes" >>, << "ir", "optimized" >>, << "ewasm" >>,
          << "ewasm", "ir" >>, << "no", "optimize", "yul" >>,
          << "yul", "optimizations" >>, << "yul" >>, << "assemble" >>,
          << "lsp" >>, << "hashes" >>, << "userdoc" >>, << "devdoc" >>,
          << "metadata" >>, << "storage", "layout" >>, << "gas" >>,
          << "metadata", "hash" >>, << "metadata", "literal" >>,
          << "error", "recovery" >> } }

\* var requiredArgs
requiredArgs ==
    { Opt(<< "overwrite" >>), Opt(<< "combined", "json" >>), << "-" >> }

\* A variant that checks only arguments that start with "-".
OffendingByPrefix(a) ==
    a # << >> /\ Head(a) = "-" /\ a \notin allowedArgs

\* SanitizeArguments: strings.Contains(arg, "-") and arg not in allowedArgs
Offending(a) == Contains(a, << "-" >>) /\ a \notin allowedArgs

\* SanitizeArguments(args): the list appended to a nil slice, or the error
\* of the first offending argument and a nil list.
SanitizeArguments(args) ==
    IF \E i \in 1..Len(args.elems) : Offending(args.elems[i])
    THEN LET i == CHOOSE k \in 1..Len(args.elems) :
                      /\ Offending(args.elems[k])
                      /\ \A j \in 1..(k - 1) : ~Offending(args.elems[j])
         IN  [val |-> NilSlice, err |-> CcErr("invalid argument", args.elems[i])]
    ELSE [val |-> AppendAll(NilSlice, args.elems), err |-> NoCcErr]

IsDigit(c) == c \in { "0", "1", "2", "3", "4", "5", "6", "7", "8", "9" }

\* regexp `^(\d+\.\d+\.\d+)$` on the whole of v
MatchesWhole(v) ==
    \E i, j \in 1..Len(v) :
        /\ 1 < i /\ i + 1 < j /\ j < Len(v)
        /\ v[i] = "." /\ v[j] = "."
        /\ \A k \in (1..Len(v)) \ { i, j } : IsDigit(v[k])

\* A variant without the anchors: some part of v has the form.
MatchesVersionUnanchored(v) ==
    \E a, b \in 1..Len(v) : a <= b /\ MatchesWhole(SubSeq(v, a, b))

\* Validate: regexp.MatchString(`^(\d+\.\d+\.\d+)$`, c.CompilerVersion)
MatchesVersion(v) == MatchesWhole(v)

\* Validate: the errors it may return (the required arguments are looked up
\* in the iteration order of a map, which Go leaves open).
ValidateResults(args, version) ==
    LET s == SanitizeArguments(args)
        present == { s.val.elems[i] : i \in 1..Len(s.val.elems) }
        missing == requiredArgs \ present
    IN  IF s.err # NoCcErr THEN { s.err }
        ELSE IF missing # {}
             THEN { CcErr("missing required argument", a) : a \in missing }
        ELSE IF ~MatchesVersion(version)
             THEN { CcErr("invalid compiler version", version) }
        ELSE { NoCcErr }

NoFile == [exists |-> FALSE, data |-> << >>]
NoRet == [op |-> "none", arg |-> NoArg, val |-> NoVal, err |-> NoErr]
NoUnit == [st |-> "none", out |-> "none", status |-> 0]

\* No round has started its helper goroutines.
NoHelpers ==
    /\ tickerPc = "none"
    /\ tickBuf = 0
    /\ tickerStopped = FALSE
    /\ consumerPc = "none"
    /\ completedDownloads = 0
    /\ logged = -1

\* The releases directory holds what an earlier run left: nothing, or the
\* list of an earlier sync and the binaries of some of its releases.  The
\* mirror is nil, as New leaves it, or loaded from that file.
InitFrom(files, oses) ==
    /\ gOOS \in oses
    /\ ctxDone = FALSE
    /\ remote \in RemoteChoices
    /\ file \in files
    /\ bins \in { [f \in DestFiles |-> AbsentFile],
                  [f \in DestFiles |->
                      IF file.exists
                         /\ f = SyncFilename(<< "2" >>, GetDistributionForAsset(gOOS))
                      THEN ExecFile ELSE AbsentFile],
                  [f \in DestFiles |->
                      IF file.exists
                         /\ f \in { SyncFilename(t, GetDistributionForAsset(gOOS)) :
                                       t \in { << "1" >>, << "2" >> } }
                      THEN ExecFile ELSE AbsentFile] }
    /\ localReleases \in
          { NilSlice } \cup (IF file.exists THEN { Unmarshal(file.data).val } ELSE {})
    /\ pc = "idle"
    /\ op = "none"
    /\ arg = NoArg
    /\ page = 1
    /\ allVersions = NilSlice
    /\ sbVersions = << >>
    /\ limitVersion = << >>
    /\ idx = 1
    /\ totalDownloads = 0
    /\ units = << >>
    /\ wg = 0
    /\ errorsCh = << >>
    /\ progressCh = 0
    /\ chClosed = FALSE
    /\ ret = NoRet
    /\ prev = NoRet
    /\ calls = 0
    /\ rounds = 0
    /\ reqLog = << >>
    /\ authLog = {}
    /\ dlLog = {}
    /\ fileAtCall = file
    /\ mirrorAtCall = localReleases
    /\ binsAtCall = bins
    /\ sinceSync = -1
    /\ sinceAtCall = -1
    /\ NoHelpers

\* releases.json as an earlier run of SyncReleases left it, if it did.
CacheFiles ==
    { NoFile, [exists |-> TRUE, data |-> Marshal(MkSlice(<< RelB, RelA >>))] }

\* releases.json holding a zero-length array.
EmptyArrayFile == [exists |-> TRUE, data |-> Marshal(MkSlice(<< >>))]

\* The tags getCleanedVersionTag is applied to.
TagChars == { "v", "1", "." }
TagSet == UNION { [1..k -> TagChars] : k \in 0..MaxTagLen }

\* The manager the calls are made on, built by New from the default Config.
\* No CompilerConfig has been built.
NoCompilerConfig == ccArgs = NilSlice /\ ccVersion = << >> /\ ccOut = NoCcOut

Constructed == config = DefaultConfig /\ manager = MkManager(DefaultConfig)

Init ==
    InitFrom(CacheFiles, OSNames) /\ tagIn = << >> /\ tagOut = << >> /\ Constructed /\ NoCompilerConfig

\* The queries tell platforms apart by the ".exe" suffix only.
InitReleases ==
    /\ InitFrom(CacheFiles \cup { EmptyArrayFile }, { "linux", "windows" })
    /\ tagIn = << >>
    /\ tagOut = << >>
    /\ Constructed /\ NoCompilerConfig

InitTags ==
    InitFrom({ NoFile }, OSNames) /\ tagIn \in TagSet /\ tagOut = << >> /\ Constructed /\ NoCompilerConfig

\* A manager on linux over any cache file and any remote.
InitPaging ==
    /\ InitFrom(CacheFiles, { "linux" })
    /\ tagIn = << >>
    /\ tagOut = << >>
    /\ config \in { MkConfig("releases", "api", httpClientTimeout, t) :
                       t \in Tokens }
    /\ manager = MkManager(config)
    /\ NoCompilerConfig

\* A manager on linux whose mirror holds the list of an earlier sync, over a
\* directory with the binaries of none, one or two of its releases.
InitProgress ==
    /\ InitFrom(CacheFiles \ { NoFile }, { "linux" })
    /\ ~localReleases.isNil
    /\ remote = << >>
    /\ tagIn = << >>
    /\ tagOut = << >>
    /\ Constructed /\ NoCompilerConfig

\* A caller that holds no manager yet, and a Config from NewDefaultConfig
\* or a literal, or none.
InitConfig ==
    /\ InitFrom({ NoFile }, { "linux" })
    /\ tagIn = << >>
    /\ tagOut = << >>
    /\ manager = NilManager
    /\ config \in { NilConfig }
                 \cup { MkConfig(p, u, httpClientTimeout, "ghp_1") :
                           p \in Paths, u \in { "", "api" } }
    /\ NoCompilerConfig

\* Arguments a caller may put in a CompilerConfig: required ones, an allowed
\* one, values without "-", and two that are not allowed.
ArgChoices ==
    { << "-" >>, Opt(<< "overwrite" >>), Opt(<< "combined", "json" >>),
      Opt(<< "optimize", "runs" >>), << "200" >>, Opt(<< "invalid" >>),
      << "bin", "-", "abi" >> }

ArgLists == UNION { [1..k -> ArgChoices] : k \in 0..MaxArgs }

\* Compiler versions: 0.8.21, 0.00, v0.8.21, 0.8.21.1, the empty string,
\* 0.8.x, 10.2.33 and 0..21.
VersionChoices ==
    { << "0", ".", "8", ".", "2", "1" >>, << "0", ".", "0", "0" >>,
      << "v", "0", ".", "8", ".", "2", "1" >>,
      << "0", ".", "8", ".", "2", "1", ".", "1" >>, << >>,
      << "0", ".", "8", ".", "x" >>, << "1", "0", ".", "2", ".", "3", "3" >>,
      << "0", ".", ".", "2", "1" >> }

\* A CompilerConfig literal with any arguments (a nil or a non-nil list) and
\* any version.
InitCompilerConfig ==
    /\ InitFrom({ NoFile }, { "linux" })
    /\ remote = << >>
    /\ tagIn = << >>
    /\ tagOut = << >>
    /\ Constructed
    /\ ccArgs \in { NilSlice } \cup { MkSlice(l) : l \in ArgLists }
    /\ ccVersion \in VersionChoices
    /\ ccOut = NoCcOut

\* ------------------------------------------------------------ call frame
Begin(o, a) ==
    /\ pc = "idle"
    /\ calls < MaxCalls
    /\ calls' = calls + 1
    /\ IF o \in {"Sync", "SyncOne", "SyncBinaries"}
       THEN rounds < MaxRounds /\ rounds' = rounds + 1
       ELSE rounds' = rounds
    /\ op' = o
    /\ arg' = a
    /\ reqLog' = << >>
    /\ authLog' = {}
    /\ dlLog' = {}
    /\ fileAtCall' = file
    /\ mirrorAtCall' = localReleases
    /\ binsAtCall' = bins
    /\ sinceAtCall' = sinceSync

\* The call has computed what it returns; its frame is still in place.
FinishAs(o, a, val, err) ==
    /\ pc' = "ret"
    /\ ret' = [op |-> o, arg |-> a, val |-> val, err |-> err]
    /\ prev' = ret

Finish(val, err) == FinishAs(op, arg, val, err)

\* Entry of SyncBinaries(versions, limit): channels made, counters zeroed.
EnterSyncBinaries(versions, limit) ==
    /\ pc' = "SB_loop"
    /\ sbVersions' = versions
    /\ limitVersion' = limit
    /\ idx' = 1
    /\ totalDownloads' = 0
    /\ units' = [i \in 1..Len(versions) |-> NoUnit]
    /\ wg' = 0
    /\ errorsCh' = << >>
    /\ progressCh' = 0
    /\ chClosed' = FALSE

\* ----------------------------------------------------------- SyncReleases
\* A variant of Sync / SyncOne that goes on to SyncBinaries whatever
\* SyncReleases returned.
SRReturnErrorIgnored(val, err) ==
    IF op \in {"Sync", "SyncOne"}
    THEN /\ EnterSyncBinaries(val.elems,
                              IF op = "Sync" THEN << >> ELSE arg.TagName)
         /\ UNCHANGED << ret, prev >>
    ELSE /\ Finish(val, err)
         /\ UNCHANGED sbVars

\* How SyncReleases hands its result on: to its caller when it was called
\* directly or failed, else to the SyncBinaries call of Sync / SyncOne.
SRReturn(val, err) ==
    IF err = NoErr /\ op \in {"Sync", "SyncOne"}
    THEN /\ EnterSyncBinaries(val.elems,
                              IF op = "Sync" THEN << >> ELSE arg.TagName)
         /\ UNCHANGED << ret, prev >>
    ELSE /\ Finish(val, err)
         /\ UNCHANGED sbVars

\* A variant that takes an undecodable body for the empty last page.
PageOutcomeDecodeIgnored(r) ==
    IF r.kind # "http" THEN "fail"
    ELSE IF ~Unmarshal(r.body).ok THEN "empty"
    ELSE IF Len(Unmarshal(r.body).val.elems) = 0 THEN "empty"
    ELSE "more"

\* What the loop body makes of one answer: "fail", "decode", "empty", "more".
PageOutcome(r) ==
    IF r.kind # "http" THEN "fail"
    ELSE IF ~Unmarshal(r.body).ok THEN "decode"
    ELSE IF Len(Unmarshal(r.body).val.elems) = 0 THEN "empty"
    ELSE "more"

\* A variant that skips a page.
NextPageSkipsOne(n) == n + 2

\* page++
NextPage(n) == n + 1

\* One iteration of the for loop: request the page, read and decode it.
SR_FetchPage ==
    /\ pc = "SR_page"
    /\ \E r \in ListingResponses(remote, page, ctxDone) :
          /\ reqLog' = Append(reqLog, [page |-> page, resp |-> r])
          /\ authLog' = authLog \cup
                { [req |-> "listing", unit |-> 0, url |-> "api",
                   header |-> Authorization(config.personalAccessToken)] }
          /\ CASE PageOutcome(r) = "fail" ->
                    /\ SRReturn(NilSlice, Err("network", 0, r.kind))
                    /\ UNCHANGED srVars
               [] PageOutcome(r) = "decode" ->
                    /\ SRReturn(NilSlice, Err("decode", 0, ""))
                    /\ UNCHANGED srVars
               [] PageOutcome(r) = "empty" ->
                    /\ pc' = "SR_open"
                    /\ UNCHANGED << srVars, sbVars, ret, prev >>
               [] PageOutcome(r) = "more" ->
                    /\ allVersions' = AppendAll(allVersions, Unmarshal(r.body).val.elems)
                    /\ page' = NextPage(page)
                    /\ pc' = "SR_page"
                    /\ UNCHANGED << sbVars, ret, prev >>
    /\ UNCHANGED << envVars, hVars, tagVars, cfgVars, ccVars, localReleases, file, bins, sinceSync,
                    op, arg, calls, rounds, dlLog, fileAtCall, mirrorAtCall,
                    binsAtCall, sinceAtCall >>

\* os.WriteFile, first half: open with O_CREATE|O_TRUNC (or fail to).
SR_Open ==
    /\ pc = "SR_open"
    /\ \/ /\ file' = [exists |-> TRUE, data |-> << >>]
          /\ pc' = "SR_write"
          /\ UNCHANGED << sbVars, ret, prev >>
       \/ /\ SRReturn(NilSlice, Err("io", 0, "open"))
          /\ UNCHANGED file
    /\ UNCHANGED << envVars, hVars, tagVars, cfgVars, ccVars, localReleases, bins, srVars, sinceSync, callVars >>

\* The short writes considered: nothing written, and all but the last token.
ShortWrites(data) == { 0, Len(data) - 1 }

\* A variant that opens the file for appending: the old content stays.
WrittenAfterOld(data, n) == fileAtCall.data \o SubSeq(data, 1, n)

\* What a write of data leaves in the file when n of its tokens get through.
Written(data, n) == SubSeq(data, 1, n)

\* os.WriteFile, second half: write the bytes (all, or some before an
\* error), then on success set the mirror and return the list.
SR_Write ==
    /\ pc = "SR_write"
    /\ \E n \in ShortWrites(Marshal(allVersions)) \cup { Len(Marshal(allVersions)) } :
          /\ file' = [exists |-> TRUE, data |-> Written(Marshal(allVersions), n)]
          /\ IF n = Len(Marshal(allVersions))
             THEN /\ localReleases' = allVersions
                  /\ sinceSync' = 0
                  /\ SRReturn(allVersions, NoErr)
             ELSE /\ SRReturn(NilSlice, Err("io", 0, "write"))
                  /\ UNCHANGED << localReleases, sinceSync >>
    /\ UNCHANGED << envVars, hVars, tagVars, cfgVars, ccVars, bins, srVars, callVars >>

CallSyncReleases ==
    /\ Begin("SyncReleases", NoArg)
    /\ pc' = "SR_page"
    /\ page' = 1
    /\ allVersions' = NilSlice
    /\ UNCHANGED << envVars, hVars, tagVars, cfgVars, ccVars, localReleases, file, bins, sbVars, ret, prev,
                    sinceSync >>

CallSync ==
    /\ Begin("Sync", NoArg)
    /\ pc' = "SR_page"
    /\ page' = 1
    /\ allVersions' = NilSlice
    /\ UNCHANGED << envVars, hVars, tagVars, cfgVars, ccVars, localReleases, file, bins, sbVars, ret, prev,
                    sinceSync >>

\* SyncOne(version) with a non-nil version.
CallSyncOne ==
    /\ \E v \in {RelA, RelB} : Begin("SyncOne", [TagName |-> v.TagName])
    /\ pc' = "SR_page"
    /\ page' = 1
    /\ allVersions' = NilSlice
    /\ UNCHANGED << envVars, hVars, tagVars, cfgVars, ccVars, localReleases, file, bins, sbVars, ret, prev,
                    sinceSync >>

\* SyncOne(nil)
CallSyncOneNil ==
    /\ Begin("SyncOneNil", NoArg)
    /\ FinishAs("SyncOneNil", NoArg, NoVal, Err("version must be provided", 0, ""))
    /\ UNCHANGED << envVars, hVars, tagVars, cfgVars, ccVars, localReleases, file, bins, srVars, sbVars, sinceSync >>

\* A variant that takes the first asset whatever its name.
FirstMatchAnyName(assets, distribution) == IF Len(assets) > 0 THEN 1 ELSE 0

\* ----------------------------------------------------------- SyncBinaries
\* Position of the first asset whose name contains the token, 0 if none
\* (the inner range loop with its break).
FirstMatch(assets, distribution) ==
    IF \E i \in 1..Len(assets) : Contains(assets[i].Name, distribution)
    THEN CHOOSE i \in 1..Len(assets) :
            /\ Contains(assets[i].Name, distribution)
            /\ \A j \in 1..(i - 1) : ~Contains(assets[j].Name, distribution)
    ELSE 0

\* The release passes the limitVersion test of the outer loop.
PassesLimit(v, limit) ==
    limit = << >> \/ getCleanedVersionTag(v.TagName) = limit

\* A variant that takes the last asset whose name contains the token.
UnitAssetLastMatch(v) ==
    LET d == GetDistributionForAsset(gOOS)
    IN  v.Assets[CHOOSE i \in 1..Len(v.Assets) :
                    /\ Contains(v.Assets[i].Name, d)
                    /\ \A j \in (i + 1)..Len(v.Assets) :
                          ~Contains(v.Assets[j].Name, d)]

\* The asset handed to the goroutine of the unit dispatched for release v.
UnitAsset(v) == v.Assets[FirstMatch(v.Assets, GetDistributionForAsset(gOOS))]

\* Destination file of the unit dispatched for release v.
DestOf(v) ==
    SyncFilename(getCleanedVersionTag(v.TagName), GetDistributionForAsset(gOOS))

\* A variant that never finds the file.
StatNeverFinds(files, filename) == TRUE

\* os.Stat(filename) reports os.IsNotExist.
StatNotExist(files, filename) == ~files[filename].exists

\* The loop dispatches a download for release v.
Dispatches(v, limit, files) ==
    /\ PassesLimit(v, limit)
    /\ FirstMatch(v.Assets, GetDistributionForAsset(gOOS)) # 0
    /\ StatNotExist(files, DestOf(v))

\* One iteration of the outer range loop.
SB_Loop ==
    /\ pc = "SB_loop"
    /\ idx <= Len(sbVersions)
    /\ idx' = idx + 1
    /\ IF Dispatches(sbVersions[idx], limitVersion, bins)
       THEN /\ totalDownloads' = totalDownloads + 1
            /\ wg' = wg + 1
            /\ units' = [units EXCEPT ![idx] = [st |-> "spawned", out |-> "none", status |-> 0]]
       ELSE UNCHANGED << totalDownloads, wg, units >>
    /\ UNCHANGED << envVars, hVars, tagVars, cfgVars, ccVars, localReleases, file, bins, pc, srVars, sbVersions,
                    limitVersion, errorsCh, progressCh, chClosed, ret, prev,
                    sinceSync, callVars >>

\* A variant with channels that hold one item.
ChanCapOne(versions) == 1

\* make(chan error, len(versions)), make(chan int, len(versions))
ChanCap(versions) == Len(versions)

\* A send on a buffered channel goes through when the buffer has room, and
\* blocks otherwise.
CanSendError == Len(errorsCh) < ChanCap(sbVersions)
CanSendProgress == progressCh < ChanCap(sbVersions)

\* A unit ends: sends its error, if any, and a progress item, then wg.Done().
UnitEndsWith(i, out, status) ==
    /\ out # "ok" => CanSendError
    /\ CanSendProgress
    /\ units' = [units EXCEPT ![i] = [st |-> "done", out |-> out, status |-> status]]
    /\ errorsCh' = IF out = "ok" THEN errorsCh
                   ELSE IF out = "status" THEN Append(errorsCh, StatusErr(i, status))
                   ELSE Append(errorsCh, Err("download", i, out))
    /\ progressCh' = progressCh + 1
    /\ wg' = wg - 1

UnitEnds(i, out) == UnitEndsWith(i, out, units[i].status)

\* A variant whose select always takes the default case.
SelectsDefault(done) == FALSE

\* select { case <-s.ctx.Done(): ...; default: ... }: the Done case is taken
\* when the context is cancelled, the default case otherwise.
SelectsDone(done) == done

\* The select at the head of the goroutine.
U_Select(i) ==
    /\ units[i].st = "spawned"
    /\ IF SelectsDone(ctxDone)
       THEN /\ CanSendError
            /\ units' = [units EXCEPT ![i] = [st |-> "done", out |-> "cancelled", status |-> 0]]
            /\ errorsCh' = Append(errorsCh, Err("cancelled", i, "context cancelled"))
            /\ wg' = wg - 1
       ELSE /\ units' = [units EXCEPT ![i] = [st |-> "request", out |-> "none", status |-> 0]]
            /\ UNCHANGED << errorsCh, wg >>
    /\ UNCHANGED << envVars, hVars, tagVars, cfgVars, ccVars, localReleases, file, bins, pc, srVars, sbVersions,
                    limitVersion, idx, totalDownloads, progressCh, chClosed,
                    ret, prev, sinceSync, callVars >>

\* Statuses an asset download can be answered with.
\* Success statuses other than 200 OK.
NonOKSuccessStatuses == { 204 }

DownloadStatuses == { StatusOK } \cup NonOKSuccessStatuses \cup FailureStatuses

\* A variant that accepts every 2xx status.
StatusAccepted2xx(status) == status \in 200..299

\* downloadFile: resp.StatusCode is accepted.
StatusAccepted(status) == status = StatusOK

\* A variant in which a request on a cancelled context is still served.
DoAnswersIgnoringCtx(done) == { "transport", "answered" }

\* s.client.Do(req) with req.WithContext(s.ctx): on a cancelled context the
\* request fails with the context's error; otherwise it fails in transport
\* or is answered.
DoAnswers(done) == IF done THEN { "aborted" } ELSE { "transport", "answered" }

\* downloadFile: the request (after the random sleep) and its status check.
U_Do(i) ==
    /\ units[i].st = "request"
    /\ dlLog' = dlLog \cup {i}
    /\ authLog' = authLog \cup
          { [req |-> "download", unit |-> i,
             url |-> UnitAsset(sbVersions[i]).BrowserDownloadURL,
             header |-> Authorization(config.personalAccessToken)] }
    /\ \E a \in DoAnswers(ctxDone) :
          IF a = "answered"
          THEN \E status \in DownloadStatuses :
                  IF StatusAccepted(status)
                  THEN /\ units' = [units EXCEPT ![i] =
                                       [st |-> "create", out |-> "none", status |-> status]]
                       /\ UNCHANGED << errorsCh, progressCh, wg >>
                  ELSE UnitEndsWith(i, "status", status)
          ELSE UnitEnds(i, a)
    /\ UNCHANGED << envVars, hVars, tagVars, cfgVars, ccVars, localReleases, file, bins, pc, srVars, sbVersions,
                    limitVersion, idx, totalDownloads, chClosed, ret, prev,
                    sinceSync, op, arg, calls, rounds, reqLog, fileAtCall,
                    mirrorAtCall, binsAtCall, sinceAtCall >>

\* os.Create: a new file gets mode 0666 (less the umask), an existing file
\* is truncated and keeps its mode.
Created(old) ==
    [exists |-> TRUE, mode |-> IF old.exists THEN old.mode ELSE "rw",
     content |-> "empty"]

\* downloadFile: os.Create(filepath.Clean(file)).
U_Create(i) ==
    /\ units[i].st = "create"
    /\ \/ /\ bins' = [bins EXCEPT ![DestOf(sbVersions[i])] = Created(@)]
          /\ units' = [units EXCEPT ![i].st = "copy"]
          /\ UNCHANGED << errorsCh, progressCh, wg >>
       \/ /\ UnitEnds(i, "create")
          /\ UNCHANGED bins
    /\ UNCHANGED << envVars, hVars, tagVars, cfgVars, ccVars, localReleases, file, pc, srVars, sbVersions,
                    limitVersion, idx, totalDownloads, chClosed, ret, prev,
                    sinceSync, callVars >>

\* Another unit of the round has the same destination open for writing.
SharedWriter(i) ==
    \E j \in DOMAIN units :
        /\ j # i
        /\ units[j].st \in {"copy", "chmod"}
        /\ DestOf(sbVersions[j]) = DestOf(sbVersions[i])

\* io.Copy fails on a write to the file, or on a read of the body, which a
\* cancelled context makes fail with the context's error.
CopyFailures(done) == IF done THEN { "copy", "aborted" } ELSE { "copy" }

\* downloadFile: io.Copy of the body into the file.
U_Copy(i) ==
    /\ units[i].st = "copy"
    /\ \/ /\ \E c \in (IF SharedWriter(i) THEN {"complete", "mixed"} ELSE {"complete"}) :
                bins' = [bins EXCEPT ![DestOf(sbVersions[i])].content = c]
          /\ units' = [units EXCEPT ![i].st = "chmod"]
          /\ UNCHANGED << errorsCh, progressCh, wg >>
       \/ /\ bins' = [bins EXCEPT ![DestOf(sbVersions[i])].content = "partial"]
          /\ \E o \in CopyFailures(ctxDone) : UnitEnds(i, o)
    /\ UNCHANGED << envVars, hVars, tagVars, cfgVars, ccVars, localReleases, file, pc, srVars, sbVersions,
                    limitVersion, idx, totalDownloads, chClosed, ret, prev,
                    sinceSync, callVars >>

\* A variant that sets a mode without the execute bits.
ChmoddedNotExecutable(f) == [f EXCEPT !.mode = "rw"]

\* os.Chmod(file, 0777)
Chmodded(f) == [f EXCEPT !.mode = "rwx"]

\* downloadFile: the chmod that ends it.
U_Chmod(i) ==
    /\ units[i].st = "chmod"
    /\ \/ /\ bins' = [bins EXCEPT ![DestOf(sbVersions[i])] = Chmodded(@)]
          /\ UnitEnds(i, "ok")
       \/ /\ UnitEnds(i, "chmod")
          /\ UNCHANGED bins
    /\ UNCHANGED << envVars, hVars, tagVars, cfgVars, ccVars, localReleases, file, pc, srVars, sbVersions,
                    limitVersion, idx, totalDownloads, chClosed, ret, prev,
                    sinceSync, callVars >>

\* A variant whose wait returns whatever the counter is.
WaitReturnsAtOnce(w) == TRUE

\* wg.Wait() blocks until the counter is zero.
WaitReturns(w) == w = 0

\* The loop is over: time.NewTicker, and the two helper goroutines start.
SB_StartHelpers ==
    /\ pc = "SB_loop"
    /\ idx > Len(sbVersions)
    /\ pc' = "SB_wait"
    /\ tickerPc' = "recv"
    /\ consumerPc' = "recv"
    /\ UNCHANGED << envVars, tickBuf, tickerStopped, completedDownloads, logged,
                    tagVars, cfgVars, ccVars, localReleases, file, bins, srVars,
                    sbVars, ret, prev, sinceSync, callVars >>

\* wg.Wait() returns; close(errorsCh); close(progressCh); ticker.Stop().
SB_Wait ==
    /\ pc = "SB_wait"
    /\ WaitReturns(wg)
    /\ chClosed' = TRUE
    /\ tickerStopped' = TRUE
    /\ pc' = "SB_drain"
    /\ UNCHANGED << envVars, tickerPc, tickBuf, consumerPc, completedDownloads,
                    logged, tagVars, cfgVars, ccVars, localReleases, file, bins, srVars, sbVersions,
                    limitVersion, idx, totalDownloads, units, wg, errorsCh,
                    progressCh, ret, prev, sinceSync, callVars >>

\* ------------------------------------------------- helper goroutines
\* The runtime sends a tick every second until Stop; a tick that finds the
\* buffer of ticker.C full is dropped.
TickFires ==
    /\ tickerPc # "none"
    /\ ~tickerStopped
    /\ tickBuf = 0
    /\ tickBuf' = 1
    /\ UNCHANGED << envVars, tickerPc, tickerStopped, consumerPc,
                    completedDownloads, logged, tagVars, cfgVars, ccVars,
                    localReleases, file, bins, pc, srVars, sbVars, ret, prev,
                    sinceSync, callVars >>

\* for range ticker.C { select { case <-s.ctx.Done(): return; default: ... } }
T_Receive ==
    /\ tickerPc = "recv"
    /\ tickBuf = 1
    /\ tickBuf' = 0
    /\ tickerPc' = IF SelectsDone(ctxDone) THEN "exited" ELSE "log"
    /\ UNCHANGED << envVars, tickerStopped, consumerPc, completedDownloads,
                    logged, tagVars, cfgVars, ccVars, localReleases, file, bins,
                    pc, srVars, sbVars, ret, prev, sinceSync, callVars >>

\* The values a plain read of the counter may see: its value, or that of an
\* increment another goroutine is in the middle of.
ReadsOfCounter(n, writing) == IF writing THEN { n, n + 1 } ELSE { n }

\* The Debug line: reads completedDownloads and totalDownloads.
T_Log ==
    /\ tickerPc = "log"
    /\ logged' \in ReadsOfCounter(completedDownloads, consumerPc = "incr")
    /\ tickerPc' = "recv"
    /\ UNCHANGED << envVars, tickBuf, tickerStopped, consumerPc,
                    completedDownloads, tagVars, cfgVars, ccVars, localReleases,
                    file, bins, pc, srVars, sbVars, ret, prev, sinceSync,
                    callVars >>

\* for range progressCh: an item is received, ...
C_Receive ==
    /\ consumerPc = "recv"
    /\ progressCh > 0
    /\ progressCh' = progressCh - 1
    /\ consumerPc' = "incr"
    /\ UNCHANGED << envVars, tickerPc, tickBuf, tickerStopped,
                    completedDownloads, logged, tagVars, cfgVars, ccVars,
                    localReleases, file, bins, pc, srVars, sbVersions,
                    limitVersion, idx, totalDownloads, units, wg, errorsCh,
                    chClosed, ret, prev, sinceSync, callVars >>

\* ... or the channel is closed and empty, and the goroutine ends.
C_Closed ==
    /\ consumerPc = "recv"
    /\ progressCh = 0
    /\ chClosed
    /\ consumerPc' = "exited"
    /\ UNCHANGED << envVars, tickerPc, tickBuf, tickerStopped,
                    completedDownloads, logged, tagVars, cfgVars, ccVars,
                    localReleases, file, bins, pc, srVars, sbVars, ret, prev,
                    sinceSync, callVars >>

\* completedDownloads++
C_Incr ==
    /\ consumerPc = "incr"
    /\ completedDownloads' = completedDownloads + 1
    /\ consumerPc' = "recv"
    /\ UNCHANGED << envVars, tickerPc, tickBuf, tickerStopped, logged, tagVars,
                    cfgVars, ccVars, localReleases, file, bins, pc, srVars,
                    sbVars, ret, prev, sinceSync, callVars >>

\* A variant that drains the channel and then reports success.
FirstErrorDropped(ch) == NoErr

\* for err := range errorsCh { return err }; return nil
FirstError(ch) == IF ch = << >> THEN NoErr ELSE Head(ch)

SB_Return ==
    /\ pc = "SB_drain"
    /\ Finish(NoVal, FirstError(errorsCh))
    /\ UNCHANGED << envVars, hVars, tagVars, cfgVars, ccVars, localReleases, file, bins, srVars, sbVars,
                    sinceSync, callVars >>

\* SyncBinaries called directly, on the mirror's list.
CallSyncBinaries ==
    /\ ~localReleases.isNil
    /\ Begin("SyncBinaries", NoArg)
    /\ EnterSyncBinaries(localReleases.elems, << >>)
    /\ UNCHANGED << envVars, hVars, tagVars, cfgVars, ccVars, localReleases, file, bins, srVars, ret, prev,
                    sinceSync >>

\* ---------------------------------------------------------------- queries
\* A variant that resets the mirror when the read or the decoding fails.
LocalReleasesResultClearsMirror(f, mirror) ==
    IF ~f.exists
    THEN [err |-> Err("notfound", 0, "releases.json"), val |-> NilSlice, mirror |-> NilSlice]
    ELSE IF ~Unmarshal(f.data).ok
    THEN [err |-> Err("decode", 0, "releases.json"), val |-> NilSlice, mirror |-> NilSlice]
    ELSE [err |-> NoErr, val |-> Unmarshal(f.data).val, mirror |-> Unmarshal(f.data).val]

\* releases.go GetLocalReleases, as a result record: the error, the value
\* returned and the mirror afterwards.
LocalReleasesResult(f, mirror) ==
    IF ~f.exists
    THEN [err |-> Err("notfound", 0, "releases.json"), val |-> NilSlice, mirror |-> mirror]
    ELSE IF ~Unmarshal(f.data).ok
    THEN [err |-> Err("decode", 0, "releases.json"), val |-> NilSlice, mirror |-> mirror]
    ELSE [err |-> NoErr, val |-> Unmarshal(f.data).val, mirror |-> Unmarshal(f.data).val]

CallGetLocalReleases ==
    /\ Begin("GetLocalReleases", NoArg)
    /\ FinishAs("GetLocalReleases", NoArg,
                LocalReleasesResult(file, localReleases).val,
                LocalReleasesResult(file, localReleases).err)
    /\ localReleases' = LocalReleasesResult(file, localReleases).mirror
    /\ UNCHANGED << envVars, hVars, tagVars, cfgVars, ccVars, file, bins, srVars, sbVars, sinceSync >>

\* A variant that only takes a nil slice for an empty one.
NoVersionsNilOnly(slice) == slice.isNil

\* len(versions) == 0
NoVersions(slice) == Len(slice.elems) = 0

\* A variant that takes the last element.
IndexLast(versions) ==
    IF Len(versions) = 0
    THEN [err |-> Err("panic", 0, "index out of range"), val |-> NilSlice]
    ELSE [err |-> NoErr, val |-> MkSlice(<< versions[Len(versions)] >>)]

\* &versions[0]: the first element; indexing an empty slice panics.
IndexZero(versions) ==
    IF Len(versions) = 0
    THEN [err |-> Err("panic", 0, "index out of range"), val |-> NilSlice]
    ELSE [err |-> NoErr, val |-> MkSlice(<< versions[1] >>)]

\* releases.go GetLatestRelease: the mirror when it is non-nil, else the
\* file read by GetLocalReleases (which sets the mirror).
LatestResult(f, mirror) ==
    LET src == IF mirror.isNil THEN LocalReleasesResult(f, mirror)
               ELSE [err |-> NoErr, val |-> mirror, mirror |-> mirror]
    IN  IF src.err # NoErr
        THEN [err |-> src.err, val |-> NilSlice, mirror |-> src.mirror]
        ELSE IF NoVersions(src.val)
        THEN [err |-> Err("empty", 0, "no versions found in releases.json"),
              val |-> NilSlice, mirror |-> src.mirror]
        ELSE [err |-> IndexZero(src.val.elems).err,
              val |-> IndexZero(src.val.elems).val, mirror |-> src.mirror]

CallGetLatestRelease ==
    /\ Begin("GetLatestRelease", NoArg)
    /\ FinishAs("GetLatestRelease", NoArg,
                LatestResult(file, localReleases).val,
                LatestResult(file, localReleases).err)
    /\ localReleases' = LatestResult(file, localReleases).mirror
    /\ UNCHANGED << envVars, hVars, tagVars, cfgVars, ccVars, file, bins, srVars, sbVars, sinceSync >>

\* A variant that compares the candidates' tags as they are.
FindReleaseRawTags(versions, tagName) ==
    IF \E i \in 1..Len(versions) : versions[i].TagName = tagName
    THEN CHOOSE i \in 1..Len(versions) :
            /\ versions[i].TagName = tagName
            /\ \A j \in 1..(i - 1) : versions[j].TagName # tagName
    ELSE 0

\* Position of the first release whose cleaned tag is tagName, 0 if none.
FindRelease(versions, tagName) ==
    IF \E i \in 1..Len(versions) : getCleanedVersionTag(versions[i].TagName) = tagName
    THEN CHOOSE i \in 1..Len(versions) :
            /\ getCleanedVersionTag(versions[i].TagName) = tagName
            /\ \A j \in 1..(i - 1) : getCleanedVersionTag(versions[j].TagName) # tagName
    ELSE 0

\* releases.go GetRelease: the mirror when it is non-nil, else the file.
ReleaseResult(f, mirror, tag) ==
    LET tagName == getCleanedVersionTag(tag)
        src == IF mirror.isNil THEN LocalReleasesResult(f, mirror)
               ELSE [err |-> NoErr, val |-> mirror, mirror |-> mirror]
    IN  IF src.err # NoErr
        THEN [err |-> src.err, found |-> 0, mirror |-> src.mirror]
        ELSE IF Len(src.val.elems) = 0
        THEN [err |-> Err("empty", 0, "no versions found"), found |-> 0,
              mirror |-> src.mirror]
        ELSE IF FindRelease(src.val.elems, tagName) = 0
        THEN [err |-> Err("notfound", 0, "version not found"), found |-> 0,
              mirror |-> src.mirror]
        ELSE [err |-> NoErr, found |-> FindRelease(src.val.elems, tagName),
              mirror |-> src.mirror]

\* A variant that returns the path without looking for the file.
BinaryResultNoStat(f, mirror, files, tag) ==
    LET version == getCleanedVersionTag(tag)
        rel == ReleaseResult(f, mirror, version)
        binaryPath == BinaryPath(version, GetDistributionForAsset(gOOS))
    IN  IF rel.err # NoErr THEN [err |-> rel.err, path |-> << >>]
        ELSE [err |-> NoErr, path |-> binaryPath]

\* releases.go GetBinary: the error and the path returned.
BinaryResult(f, mirror, files, tag) ==
    LET version == getCleanedVersionTag(tag)
        rel == ReleaseResult(f, mirror, version)
        binaryPath == BinaryPath(version, GetDistributionForAsset(gOOS))
    IN  IF rel.err # NoErr THEN [err |-> rel.err, path |-> << >>]
        ELSE IF binaryPath \notin DOMAIN files \/ ~files[binaryPath].exists
        THEN [err |-> Err("notfound", 0, "binary"), path |-> << >>]
        ELSE [err |-> NoErr, path |-> binaryPath]

TagInputs == { << "v", "1" >>, << "1" >>, << "2" >>, << "9" >> }

\* A variant that compares the cleaned tags.
GetVersionInfoCleanedTags(v, latestVersionTag) ==
    [TagName |-> v.TagName,
     IsLatest |-> getCleanedVersionTag(v.TagName) = getCleanedVersionTag(latestVersionTag),
     IsPrerelease |-> v.Prerelease]

\* types.go GetVersionInfo
GetVersionInfo(v, latestVersionTag) ==
    [TagName |-> v.TagName,
     IsLatest |-> v.TagName = latestVersionTag,
     IsPrerelease |-> v.Prerelease]

\* releases.go GetReleasesSimplified: GetLocalReleases, then one VersionInfo
\* appended per release to a nil slice.
SimplifiedResult(f, mirror) ==
    LET src == LocalReleasesResult(f, mirror)
    IN  IF src.err # NoErr
        THEN [err |-> src.err, val |-> NilSlice, mirror |-> src.mirror]
        ELSE [err |-> NoErr,
              val |-> IF Len(src.val.elems) = 0 THEN NilSlice
                      ELSE MkSlice([i \in 1..Len(src.val.elems) |->
                                      GetVersionInfo(src.val.elems[i],
                                                     src.val.elems[1].TagName)]),
              mirror |-> src.mirror]

CallGetReleasesSimplified ==
    /\ Begin("GetReleasesSimplified", NoArg)
    /\ FinishAs("GetReleasesSimplified", NoArg,
                SimplifiedResult(file, localReleases).val,
                SimplifiedResult(file, localReleases).err)
    /\ localReleases' = SimplifiedResult(file, localReleases).mirror
    /\ UNCHANGED << envVars, hVars, tagVars, cfgVars, ccVars, file, bins, srVars, sbVars, sinceSync >>

\* releases.go GetRelease as a call: the release found, or the error.
CallGetRelease ==
    /\ \E tag \in TagInputs :
          LET r == ReleaseResult(file, localReleases, tag)
          IN  /\ Begin("GetRelease", [TagName |-> tag])
              /\ FinishAs("GetRelease", [TagName |-> tag],
                          IF r.err = NoErr
                          THEN MkSlice(<< r.mirror.elems[r.found] >>)
                          ELSE NilSlice,
                          r.err)
              /\ localReleases' = r.mirror
    /\ UNCHANGED << envVars, hVars, tagVars, cfgVars, ccVars, file, bins, srVars, sbVars, sinceSync >>

CallGetBinary ==
    /\ \E tag \in TagInputs :
          /\ Begin("GetBinary", [TagName |-> tag])
          /\ FinishAs("GetBinary", [TagName |-> tag],
                      MkSlice(BinaryResult(file, localReleases, bins, tag).path),
                      BinaryResult(file, localReleases, bins, tag).err)
          /\ localReleases' = ReleaseResult(file, localReleases,
                                            getCleanedVersionTag(tag)).mirror
    /\ UNCHANGED << envVars, hVars, tagVars, cfgVars, ccVars, file, bins, srVars, sbVars, sinceSync >>

\* A variant that empties the directory of binaries.
RemovedWithTheRest(files, path) == [f \in DOMAIN files |-> AbsentFile]

\* os.Remove(binaryPath)
Removed(files, path) == [files EXCEPT ![path] = AbsentFile]

\* releases.go RemoveBinary
CallRemoveBinary ==
    /\ \E tag \in TagInputs :
          /\ Begin("RemoveBinary", [TagName |-> tag])
          /\ FinishAs("RemoveBinary", [TagName |-> tag], NoVal,
                      BinaryResult(file, localReleases, bins, tag).err)
          /\ localReleases' = ReleaseResult(file, localReleases,
                                            getCleanedVersionTag(tag)).mirror
          /\ bins' = IF BinaryResult(file, localReleases, bins, tag).err = NoErr
                     THEN Removed(bins,
                                  BinaryResult(file, localReleases, bins, tag).path)
                     ELSE bins
    /\ UNCHANGED << envVars, hVars, tagVars, cfgVars, ccVars, file, srVars, sbVars, sinceSync >>

\* ------------------------------------------------- configuration calls
\* solc.go New(ctx, config): a manager with an unset mirror, or nil.
CallNew ==
    /\ Begin("New", NoArg)
    /\ FinishAs("New", NoArg, NoVal, NewResult(config))
    /\ manager' = IF NewResult(config) = NoErr THEN MkManager(config)
                  ELSE NilManager
    /\ localReleases' = NilSlice
    /\ UNCHANGED << envVars, hVars, tagVars, config, ccVars, file, bins, srVars, sbVars,
                    sinceSync >>

\* Config.SetReleasesPath(path)
CallSetReleasesPath ==
    /\ ~config.isNil
    /\ \E path \in Paths :
          /\ Begin("SetReleasesPath", [path |-> path])
          /\ FinishAs("SetReleasesPath", [path |-> path], NoVal, validatePath(path))
          /\ config' = IF validatePath(path) = NoErr
                       THEN [config EXCEPT !.releasesPath = path]
                       ELSE config
    /\ UNCHANGED << envVars, hVars, tagVars, manager, ccVars, localReleases, file, bins,
                    srVars, sbVars, sinceSync >>

\* Config.SetHttpClientTimeout(timeout)
CallSetHttpClientTimeout ==
    /\ ~config.isNil
    /\ \E timeout \in Timeouts :
          /\ Begin("SetHttpClientTimeout", [timeout |-> timeout])
          /\ FinishAs("SetHttpClientTimeout", [timeout |-> timeout], NoVal, NoErr)
          /\ config' = [config EXCEPT !.httpClientTimeout = timeout]
    /\ UNCHANGED << envVars, hVars, tagVars, manager, ccVars, localReleases, file, bins,
                    srVars, sbVars, sinceSync >>

\* ----------------------------------------------- compiler config calls
\* c.SanitizeArguments(c.Arguments)
CallSanitizeArguments ==
    /\ ccOut.op = "none"
    /\ ccOut' = [op |-> "SanitizeArguments",
                 val |-> SanitizeArguments(ccArgs).val,
                 err |-> SanitizeArguments(ccArgs).err]
    /\ UNCHANGED << envVars, hVars, tagVars, cfgVars, ccArgs, ccVersion, localReleases,
                    file, bins, pc, srVars, sbVars, ret, prev, sinceSync,
                    callVars >>

\* c.Validate()
CallValidate ==
    /\ ccOut.op = "none"
    /\ \E err \in ValidateResults(ccArgs, ccVersion) :
          ccOut' = [op |-> "Validate", val |-> NilSlice, err |-> err]
    /\ UNCHANGED << envVars, hVars, tagVars, cfgVars, ccArgs, ccVersion, localReleases,
                    file, bins, pc, srVars, sbVars, ret, prev, sinceSync,
                    callVars >>

\* The call returns to its caller: its locals are gone.
Exit ==
    /\ pc = "ret"
    /\ pc' = "idle"
    /\ op' = "none"
    /\ arg' = NoArg
    /\ page' = 1
    /\ allVersions' = NilSlice
    /\ sbVersions' = << >>
    /\ limitVersion' = << >>
    /\ idx' = 1
    /\ totalDownloads' = 0
    /\ units' = << >>
    /\ wg' = 0
    /\ errorsCh' = << >>
    /\ progressCh' = 0
    /\ chClosed' = FALSE
    /\ reqLog' = << >>
    /\ authLog' = {}
    /\ dlLog' = {}
    /\ fileAtCall' = file
    /\ mirrorAtCall' = localReleases
    /\ binsAtCall' = bins
    /\ sinceAtCall' = sinceSync
    /\ tickerPc' = "none"
    /\ tickBuf' = 0
    /\ tickerStopped' = FALSE
    /\ consumerPc' = "none"
    /\ completedDownloads' = 0
    /\ logged' = -1
    /\ UNCHANGED << envVars, tagVars, cfgVars, ccVars, localReleases, file, bins, ret, prev, calls, rounds,
                    sinceSync >>

\* ------------------------------------------------------------ environment
\* The caller cancels the context given to New.
Cancel ==
    /\ ~ctxDone
    /\ ctxDone' = TRUE
    /\ UNCHANGED << gOOS, remote, hVars, tagVars, cfgVars, ccVars, localReleases, file, bins, pc, srVars,
                    sbVars, ret, prev, sinceSync, callVars >>

\* A caller inside the package resets the mirror (s.localReleases = nil), as
\* the tests do between two queries.
ClearMirror ==
    /\ pc = "idle"
    /\ ~localReleases.isNil
    /\ localReleases' = NilSlice
    /\ mirrorAtCall' = NilSlice
    /\ UNCHANGED << envVars, hVars, tagVars, cfgVars, ccVars, file, bins, pc, srVars, sbVars, ret, prev, sinceSync,
                    op, arg, calls, rounds, reqLog, dlLog, authLog, fileAtCall,
                    binsAtCall, sinceAtCall >>

\* Time passes between two calls.
Tick ==
    /\ pc = "idle"
    /\ sinceSync >= 0
    /\ sinceSync < MaxElapsed
    /\ sinceSync' = sinceSync + 1
    /\ UNCHANGED << envVars, hVars, tagVars, cfgVars, ccVars, localReleases, file, bins, pc, srVars, sbVars,
                    ret, prev, callVars >>

\* getCleanedVersionTag applied to the tag, then to its own result.
CleanTag ==
    /\ Len(tagOut) < 2
    /\ tagOut' = Append(tagOut,
                        getCleanedVersionTag(IF tagOut = << >> THEN tagIn
                                             ELSE tagOut[Len(tagOut)]))
    /\ UNCHANGED << envVars, hVars, tagIn, cfgVars, ccVars, localReleases, file, bins,
                    pc, srVars, sbVars, ret, prev, sinceSync, callVars >>

\* The calling goroutine inside SyncReleases.
SyncReleasesSteps == SR_FetchPage \/ SR_Open \/ SR_Write

\* The calling goroutine inside SyncBinaries, and the download goroutines.
SyncBinariesSteps ==
    \/ SB_Loop
    \/ \E i \in DOMAIN units : U_Select(i)
    \/ \E i \in DOMAIN units : U_Do(i)
    \/ \E i \in DOMAIN units : U_Create(i)
    \/ \E i \in DOMAIN units : U_Copy(i)
    \/ \E i \in DOMAIN units : U_Chmod(i)
    \/ SB_StartHelpers
    \/ SB_Wait
    \/ SB_Return

\* The helper goroutines of a round, and the runtime's ticker.
HelperSteps ==
    TickFires \/ T_Receive \/ T_Log \/ C_Receive \/ C_Closed \/ C_Incr

\* A caller that refreshes and queries the release list.
NextReleases ==
    \/ CallSyncReleases
    \/ CallGetLocalReleases
    \/ CallGetLatestRelease
    \/ CallGetRelease
    \/ CallGetReleasesSimplified
    \/ CallGetBinary
    \/ CallRemoveBinary
    \/ SyncReleasesSteps
    \/ Exit
    \/ Cancel
    \/ ClearMirror
    \/ Tick

\* A caller that runs download rounds.
NextRounds ==
    \/ CallSync
    \/ CallSyncOne
    \/ CallSyncBinaries
    \/ SyncReleasesSteps
    \/ SyncBinariesSteps
    \/ Exit
    \/ Cancel

\* A caller of the tag helper and of the argument check of SyncOne.
NextTags == CleanTag \/ CallSyncOneNil \/ Exit

\* One SyncBinaries call with its helper goroutines, which outlive it.
NextProgress ==
    CallSyncBinaries \/ SyncBinariesSteps \/ HelperSteps \/ Cancel

\* A caller of SyncReleases.
NextPaging == CallSyncReleases \/ SyncReleasesSteps \/ Exit \/ Cancel

\* A caller that builds a Config and a manager.
NextConfig == CallNew \/ CallSetReleasesPath \/ CallSetHttpClientTimeout \/ Exit

\* A caller that checks a CompilerConfig.
NextCompilerConfig == CallSanitizeArguments \/ CallValidate

\* Any caller.
Next == NextReleases \/ NextRounds \/ NextTags \/ NextConfig
            \/ NextCompilerConfig \/ NextProgress \/ NextPaging

Spec == Init /\ [][Next]_vars
SpecReleases == InitReleases /\ [][NextReleases]_vars
SpecTags == InitTags /\ [][NextTags]_vars
SpecConfig == InitConfig /\ [][NextConfig]_vars
\* The calling goroutine keeps running: a SyncReleases under way takes its
\* next step.
SpecPaging ==
    InitPaging /\ [][NextPaging]_vars /\ WF_vars(SyncReleasesSteps)
\* The goroutines of a round keep running: the caller and the download
\* goroutines, the ticker goroutine, the consumer goroutine.  Nothing is
\* assumed of the ticker's runtime or of the caller of Cancel.
SpecProgressFair ==
    /\ InitProgress /\ [][NextProgress]_vars
    /\ WF_vars(SyncBinariesSteps)
    /\ WF_vars(T_Receive \/ T_Log)
    /\ WF_vars(C_Receive \/ C_Closed \/ C_Incr)
SpecProgress == InitProgress /\ [][NextProgress]_vars
SpecCompilerConfig == InitCompilerConfig /\ [][NextCompilerConfig]_vars
SpecRounds == Init /\ [][NextRounds]_vars

\* ======================================================== checked claims
\* A direct SyncReleases call has computed its result.
SyncReleasesReturned == pc = "ret" /\ ret.op = "SyncReleases"

\* The answer logged last could not be used: transport or read error, or a
\* body that is no JSON array of releases.
LastPageFailed ==
    /\ reqLog # << >>
    /\ LET r == reqLog[Len(reqLog)].resp
       IN  r.kind # "http" \/ ~Unmarshal(r.body).ok

\* The entries of the k-th answer of the call.
EntriesOf(k) == Unmarshal(reqLog[k].resp.body).val.elems

RECURSIVE ConcatEntries(_)
ConcatEntries(k) == IF k = 0 THEN << >> ELSE ConcatEntries(k - 1) \o EntriesOf(k)

\* C1: a SyncReleases call that begins within the throttle interval of the
\* last successful sync (here: before any clock tick since it) sends no
\* listing request and returns the in-memory cache, which it leaves as it was.
C1_ThrottledCallSendsNothing ==
    (SyncReleasesReturned /\ sinceAtCall = 0) =>
        /\ reqLog = << >>
        /\ ret.err = NoErr
        /\ ret.val = mirrorAtCall
        /\ localReleases = mirrorAtCall

\* C3: a successful SyncReleases has requested pages 1, 2, 3, ... in order,
\* the last answer is the only one with zero entries, and the list returned
\* is the concatenation of the entries of the answers, in page order.
C3_PagesConcatenatedInOrder ==
    (SyncReleasesReturned /\ ret.err = NoErr) =>
        /\ Len(reqLog) >= 1
        /\ \A k \in 1..Len(reqLog) : reqLog[k].page = k
        /\ \A k \in 1..Len(reqLog) : reqLog[k].resp.kind = "http"
        /\ \A k \in 1..Len(reqLog) : (Len(EntriesOf(k)) = 0) <=> (k = Len(reqLog))
        /\ ret.val.elems = ConcatEntries(Len(reqLog))

\* C3 witness: a sync over two non-empty pages and the empty third one.
C3_Witness ==
    /\ SyncReleasesReturned
    /\ ret.err = NoErr
    /\ Len(reqLog) = 3
    /\ Len(ret.val.elems) = 3

\* C4: after a successful SyncReleases returning S the cache file holds the
\* encoding of S and nothing else, the mirror is S, and a GetLocalReleases
\* called next succeeds and returns a list equal to S.
C4_PersistThenReadRoundTrip ==
    /\ (SyncReleasesReturned /\ ret.err = NoErr) =>
          /\ file.exists
          /\ file.data = Marshal(ret.val)
          /\ localReleases = ret.val
    /\ (/\ pc = "ret"
        /\ ret.op = "GetLocalReleases"
        /\ prev.op = "SyncReleases"
        /\ prev.err = NoErr) =>
          /\ ret.err = NoErr
          /\ ret.val = prev.val
          /\ localReleases = prev.val

\* C4 witness: GetLocalReleases right after a sync that replaced an older
\* cache file by a list of three releases.
C4_Witness ==
    /\ pc = "ret"
    /\ ret.op = "GetLocalReleases"
    /\ prev.op = "SyncReleases"
    /\ prev.err = NoErr
    /\ Len(prev.val.elems) = 3
    /\ ret.val = prev.val

\* C5: a SyncReleases call whose last page failed returns the nil list and
\* an error, and the cache file and the mirror are as they were at the call.
C5_PageFailureLeavesCache ==
    (SyncReleasesReturned /\ LastPageFailed) =>
        /\ ret.err # NoErr
        /\ ret.val = NilSlice
        /\ file = fileAtCall
        /\ localReleases = mirrorAtCall

\* C5 witness: the failure comes after a page that was accumulated, with a
\* cache file in place.
C5_Witness ==
    /\ SyncReleasesReturned
    /\ LastPageFailed
    /\ Len(reqLog) >= 2
    /\ fileAtCall.exists
    /\ ~allVersions.isNil

\* C6: a SyncReleases call in which some listing page was answered with a
\* non-2xx status returns an error and persists nothing.
C6_HttpFailureStatusIsAnError ==
    (/\ SyncReleasesReturned
     /\ \E k \in 1..Len(reqLog) :
           /\ reqLog[k].resp.kind = "http"
           /\ reqLog[k].resp.status \notin 200..299) =>
        /\ ret.err # NoErr
        /\ file = fileAtCall

\* C7: at every moment the cache file is what it was when the call in
\* progress began, or the complete encoding of the list being persisted.
C7_CacheFileOverwrittenAtomically ==
    \/ file = fileAtCall
    \/ file = [exists |-> TRUE, data |-> Marshal(allVersions)]

\* The SyncBinaries of the call in progress has computed its result.
RoundReturned == pc = "ret" /\ chClosed

\* Release i of the round's list passes the filter and has a platform asset.
Wanted(i) ==
    /\ PassesLimit(sbVersions[i], limitVersion)
    /\ FirstMatch(sbVersions[i].Assets, GetDistributionForAsset(gOOS)) # 0

\* C2: SyncOne(v) returning nil, for a v of the synced list that has a
\* platform asset and whose binary was missing, leaves the binary of v on
\* disk where GetBinary(v.TagName) finds it, and has requested the binary of
\* no release with another cleaned tag.
C2_SyncOneFetchesItsRelease ==
    (/\ pc = "ret"
     /\ ret.op = "SyncOne"
     /\ ret.err = NoErr
     /\ \E i \in 1..Len(sbVersions) :
           /\ sbVersions[i].TagName = ret.arg.TagName
           /\ FirstMatch(sbVersions[i].Assets, GetDistributionForAsset(gOOS)) # 0
           /\ ~binsAtCall[DestOf(sbVersions[i])].exists) =>
        /\ BinaryResult(file, localReleases, bins, ret.arg.TagName).err = NoErr
        /\ \A j \in dlLog :
              getCleanedVersionTag(sbVersions[j].TagName)
                  = getCleanedVersionTag(ret.arg.TagName)

\* Every wanted release of the round had its destination file when the
\* call began.
AllPresentAtCall ==
    \A i \in 1..Len(sbVersions) :
        Wanted(i) => binsAtCall[DestOf(sbVersions[i])].exists

\* C8: no download unit is dispatched for a release whose destination file
\* exists when the loop checks it; and a round over releases whose binaries
\* were all present dispatches nothing, sends no download request, leaves
\* every binary file as it was and returns nil.
C8_PresentBinariesNotFetchedAgain ==
    [][ /\ \A i \in DOMAIN units :
              (i \in DOMAIN units' /\ units[i].st = "none" /\ units'[i].st # "none")
                  => ~bins[DestOf(sbVersions[i])].exists
        /\ (RoundReturned' /\ AllPresentAtCall') =>
              /\ \A i \in DOMAIN units' : units'[i].st = "none"
              /\ dlLog' = {}
              /\ bins' = binsAtCall'
              /\ ret'.err = NoErr
      ]_vars

\* C8 witness: such a round over two releases with their binaries in place.
C8_Witness ==
    /\ RoundReturned
    /\ AllPresentAtCall
    /\ Cardinality({ i \in 1..Len(sbVersions) : Wanted(i) }) >= 2

\* C9: when a round with failed and succeeded units returns, it returns an
\* error, every dispatched unit has run to its end, and the destination of
\* every unit that succeeded exists and is executable.
C9_FailureSparesOtherUnits ==
    (/\ RoundReturned
     /\ \E i \in DOMAIN units : units[i].st = "done" /\ units[i].out # "ok"
     /\ \E j \in DOMAIN units : units[j].out = "ok") =>
        /\ ret.err # NoErr
        /\ \A i \in DOMAIN units : units[i].st \in {"none", "done"}
        /\ \A j \in DOMAIN units :
              units[j].out = "ok" =>
                  /\ bins[DestOf(sbVersions[j])].exists
                  /\ bins[DestOf(sbVersions[j])].mode = "rwx"

\* C9 witness: one unit answered with a failure status, the other done.
C9_Witness ==
    /\ RoundReturned
    /\ \E i, j \in DOMAIN units :
          /\ units[i].out = "status"
          /\ units[j].out = "ok"
          /\ bins[DestOf(sbVersions[j])].mode = "rwx"

\* What unit i sent on errorsCh.
ReportedBy(i) ==
    IF units[i].out = "cancelled" THEN Err("cancelled", i, "context cancelled")
    ELSE IF units[i].out = "status" THEN StatusErr(i, units[i].status)
    ELSE Err("download", i, units[i].out)

\* C10: a round returns nil exactly when no dispatched unit reported an
\* error, and otherwise returns an error that a unit of the round reported.
C10_OneReportedErrorOrNil ==
    RoundReturned =>
        /\ (ret.err = NoErr) <=>
              (\A i \in DOMAIN units : units[i].st = "done" => units[i].out = "ok")
        /\ ret.err # NoErr =>
              \E i \in DOMAIN units :
                  /\ units[i].st = "done"
                  /\ units[i].out # "ok"
                  /\ ret.err = ReportedBy(i)

\* C10 witness: two units failed, for different reasons.
C10_Witness ==
    /\ RoundReturned
    /\ \E i, j \in DOMAIN units :
          /\ units[i].out = "cancelled"
          /\ units[j].out = "copy"
          /\ ret.err = ReportedBy(j)

\* C11: SyncBinaries does not return before every unit it dispatched has
\* finished: once wg.Wait() has returned, and at the return, no unit is
\* running or writing a file.
C11_ReturnsAfterAllUnits ==
    (pc = "SB_drain" \/ RoundReturned) =>
        /\ wg = 0
        /\ \A i \in DOMAIN units : units[i].st \in {"none", "done"}

C11_Witness ==
    /\ RoundReturned
    /\ \E i, j \in DOMAIN units :
          /\ i # j
          /\ units[i].st = "done" /\ units[i].out = "ok"
          /\ units[j].st = "done"

\* The units the round dispatched.
Dispatched == { i \in DOMAIN units : units[i].st # "none" }

\* C12: with the context cancelled before its units start and a binary
\* missing, every unit takes the Done case of its select: it reports the
\* "context cancelled" error, sends no request and touches no file; the
\* round then returns that error, and no file has been created.
C12_CancelledBeforeUnitsStart ==
    [][ /\ \A i \in DOMAIN units :
             (/\ i \in DOMAIN units'
              /\ ctxDone
              /\ units[i].st = "spawned"
              /\ units'[i].st # "spawned") =>
                 /\ units'[i].st = "done"
                 /\ units'[i].out = "cancelled"
                 /\ errorsCh' = Append(errorsCh, Err("cancelled", i, "context cancelled"))
                 /\ dlLog' = dlLog
                 /\ bins' = bins
        /\ (/\ RoundReturned' /\ ~RoundReturned
            /\ Dispatched' # {}
            /\ \A i \in Dispatched' : units'[i].out = "cancelled") =>
               /\ ret'.err.kind = "cancelled"
               /\ dlLog' = {}
               /\ bins' = binsAtCall'
      ]_vars

C12_Witness ==
    /\ RoundReturned
    /\ ctxDone
    /\ Cardinality(Dispatched) >= 2
    /\ \A i \in Dispatched : units[i].out = "cancelled"
    /\ ret.err.kind = "cancelled"
    /\ \E i \in Dispatched : ~bins[DestOf(sbVersions[i])].exists

\* The unit has passed its select and is inside downloadFile.
Started(u) == u.st \in {"request", "create", "copy", "chmod"}

\* C13 (as stated): a unit that has passed its cancellation check is not
\* aborted by a cancellation signalled afterwards.
C13_StartedUnitNotAborted ==
    \A i \in DOMAIN units : units[i].out # "aborted"

\* C13 (amended): the "context cancelled" short-circuit only reaches units
\* that have not passed their select; a unit that has passed it never reports
\* it, but its request carries the same context: a cancellation signalled
\* before the request is answered makes the request fail, and only a
\* cancellation makes a unit end with the context's error.
C13_CancelAbortsPendingRequest ==
    [][ \A i \in DOMAIN units :
            i \in DOMAIN units' =>
                /\ Started(units[i]) => units'[i].out # "cancelled"
                /\ (units[i].st = "request" /\ ctxDone /\ units'[i] # units[i]) =>
                       (units'[i].st = "done" /\ units'[i].out = "aborted")
                /\ (units'[i].out = "aborted" /\ units[i].out # "aborted") =>
                       (ctxDone /\ units[i].st \in {"request", "copy"})
      ]_vars

C13_Witness ==
    /\ RoundReturned
    /\ \E i, j \in DOMAIN units :
          /\ units[i].out = "aborted"
          /\ units[i].status = 0
          /\ units[j].out = "ok"

HasPlatformAsset(v) ==
    \E k \in DOMAIN v.Assets :
        Contains(v.Assets[k].Name, GetDistributionForAsset(gOOS))

\* C15: a release with no asset for the platform is skipped without error:
\* no unit is dispatched for it, nothing is requested or written for it and
\* no error names it; a round over only such releases returns nil with no
\* request made and no file changed.
C15_ReleaseWithoutAssetSkipped ==
    /\ \A i \in DOMAIN units :
          ~HasPlatformAsset(sbVersions[i]) =>
              /\ units[i] = NoUnit
              /\ i \notin dlLog
              /\ \A k \in DOMAIN errorsCh : errorsCh[k].unit # i
    /\ (/\ RoundReturned
        /\ \A i \in DOMAIN sbVersions : ~HasPlatformAsset(sbVersions[i])) =>
           /\ ret.err = NoErr
           /\ dlLog = {}
           /\ bins = binsAtCall

C15_Witness ==
    /\ RoundReturned
    /\ Len(sbVersions) >= 2
    /\ \A i \in DOMAIN sbVersions :
          /\ sbVersions[i].Assets # << >>
          /\ ~HasPlatformAsset(sbVersions[i])
    /\ ret.err = NoErr

\* C16: after Sync() returns nil, every release of the synced list that has
\* an asset for the platform has a file at the path GetBinary computes for
\* its tag, which is the path the download wrote to, so GetBinary succeeds.
C16_SyncedBinariesFound ==
    (pc = "ret" /\ ret.op = "Sync" /\ ret.err = NoErr) =>
        \A i \in DOMAIN sbVersions :
            HasPlatformAsset(sbVersions[i]) =>
                LET r == BinaryResult(file, localReleases, bins,
                                      sbVersions[i].TagName)
                IN  /\ r.err = NoErr
                    /\ r.path = DestOf(sbVersions[i])
                    /\ bins[r.path].exists

C16_Witness ==
    /\ pc = "ret" /\ ret.op = "Sync" /\ ret.err = NoErr
    /\ gOOS = "windows"
    /\ dlLog # {}
    /\ Cardinality({ i \in DOMAIN sbVersions : HasPlatformAsset(sbVersions[i]) }) >= 2
    /\ sbVersions = localReleases.elems

\* The sequence a query started in the current frame reads: the mirror when
\* it is non-nil, else the decoded file (empty if there is none to decode).
AuthoritativeAtCall ==
    IF ~mirrorAtCall.isNil THEN mirrorAtCall.elems
    ELSE IF fileAtCall.exists /\ Unmarshal(fileAtCall.data).ok
    THEN Unmarshal(fileAtCall.data).val.elems
    ELSE << >>

LatestReturned == pc = "ret" /\ ret.op = "GetLatestRelease"

\* C17: GetLatestRelease returns the first element of the authoritative
\* sequence (the mirror when set, else the persisted file), and right after
\* a successful SyncReleases that returned S it returns the first element
\* of S, with the mirror in place or cleared.
C17_LatestIsIndexZero ==
    LatestReturned =>
        /\ ret.err = NoErr =>
              /\ Len(AuthoritativeAtCall) > 0
              /\ ret.val = MkSlice(<< AuthoritativeAtCall[1] >>)
        /\ Len(AuthoritativeAtCall) > 0 => ret.err = NoErr
        /\ (/\ prev.op = "SyncReleases"
            /\ prev.err = NoErr
            /\ Len(prev.val.elems) > 0) =>
               /\ ret.err = NoErr
               /\ ret.val = MkSlice(<< prev.val.elems[1] >>)

C17_Witness ==
    /\ LatestReturned
    /\ prev.op = "SyncReleases" /\ prev.err = NoErr
    /\ Len(prev.val.elems) >= 2
    /\ mirrorAtCall.isNil
    /\ ret.val = MkSlice(<< prev.val.elems[1] >>)

\* C18: when the authoritative sequence has no element (a file holding
\* null or a zero-length array, or an empty mirror), GetLatestRelease
\* returns the "no versions found" error and no release; it never indexes
\* an empty sequence.
C18_EmptyListIsAnError ==
    LatestReturned =>
        /\ ret.err.kind # "panic"
        /\ (/\ ~mirrorAtCall.isNil \/ (fileAtCall.exists /\ Unmarshal(fileAtCall.data).ok)
            /\ Len(AuthoritativeAtCall) = 0) =>
               /\ ret.err.kind = "empty"
               /\ ret.val = NilSlice

C18_Witness ==
    /\ LatestReturned
    /\ ~mirrorAtCall.isNil
    /\ mirrorAtCall.elems = << >>
    /\ ret.err.kind = "empty"

GetReleaseReturned == pc = "ret" /\ ret.op = "GetRelease"

\* The query read a sequence: the mirror, or a file that decodes.
SourceReadableAtCall ==
    ~mirrorAtCall.isNil \/ (fileAtCall.exists /\ Unmarshal(fileAtCall.data).ok)

\* Positions of the authoritative sequence whose normalized tag is the
\* normalized tag asked for.
MatchesAtCall ==
    { i \in DOMAIN AuthoritativeAtCall :
        getCleanedVersionTag(AuthoritativeAtCall[i].TagName)
            = getCleanedVersionTag(ret.arg.TagName) }

\* C19: GetRelease compares normalized tags: the call returns what a call
\* with a "v" put in front of its tag returns; the release returned is the first
\* one in sequence order whose normalized tag equals the normalized query,
\* and when no element matches the call fails with a not-found error
\* ("version not found", or "no versions found" on an empty sequence).
C19_GetReleaseNormalizesBothSides ==
    /\ GetReleaseReturned =>
          LET r == ReleaseResult(fileAtCall, mirrorAtCall,
                                 << "v" >> \o ret.arg.TagName)
          IN  /\ r.err = ret.err
              /\ r.err = NoErr => ret.val = MkSlice(<< r.mirror.elems[r.found] >>)
    /\ (GetReleaseReturned /\ SourceReadableAtCall) =>
          IF MatchesAtCall = {}
          THEN /\ ret.err.kind \in {"notfound", "empty"}
               /\ ret.val = NilSlice
          ELSE /\ ret.err = NoErr
               /\ ret.val = MkSlice(<< AuthoritativeAtCall[
                                CHOOSE i \in MatchesAtCall :
                                    \A j \in MatchesAtCall : i <= j] >>)

C19_Witness ==
    /\ GetReleaseReturned
    /\ ret.arg.TagName = << "1" >>
    /\ AuthoritativeAtCall = << RelA, RelC >>
    /\ ret.val = MkSlice(<< RelA >>)
    /\ ret.err = NoErr

\* C20: normalizing a tag twice gives what normalizing it once gives.
C20_CleaningIsIdempotent ==
    Len(tagOut) = 2 => tagOut[2] = tagOut[1]

C20_Witness ==
    /\ Len(tagOut) = 2
    /\ Len(tagIn) = MaxTagLen
    /\ tagIn[1] = "v" /\ tagIn[2] = "v"
    /\ tagOut[1] # tagIn

\* C21: a GetLatestRelease or GetRelease that finds the mirror unset and no
\* cache file syncs implicitly (it sends a listing request) and does not
\* surface the missing file as an error.
C21_MissingCacheTriggersSync ==
    (/\ LatestReturned \/ GetReleaseReturned
     /\ mirrorAtCall.isNil
     /\ ~fileAtCall.exists) =>
        /\ reqLog # << >>
        /\ ~(ret.err.kind = "notfound" /\ ret.err.cause = "releases.json")

LocalReleasesReturned == pc = "ret" /\ ret.op = "GetLocalReleases"

\* C22: GetLocalReleases fails with a not-found error when releases.json is
\* absent and with a decode error when it does not decode, and then leaves
\* the mirror as it was; when it succeeds the mirror is the sequence it
\* returns, which is the decoded file.
C22_LocalReleasesErrorsKeepMirror ==
    LocalReleasesReturned =>
        IF ~fileAtCall.exists
        THEN /\ ret.err.kind = "notfound"
             /\ ret.val = NilSlice
             /\ localReleases = mirrorAtCall
        ELSE IF ~Unmarshal(fileAtCall.data).ok
        THEN /\ ret.err.kind = "decode"
             /\ ret.val = NilSlice
             /\ localReleases = mirrorAtCall
        ELSE /\ ret.err = NoErr
             /\ ret.val = Unmarshal(fileAtCall.data).val
             /\ localReleases = ret.val

C22_Witness ==
    /\ LocalReleasesReturned
    /\ ret.err.kind = "decode"
    /\ ~mirrorAtCall.isNil
    /\ Len(mirrorAtCall.elems) >= 2
    /\ localReleases = mirrorAtCall

SimplifiedReturned == pc = "ret" /\ ret.op = "GetReleasesSimplified"

\* C23: GetReleasesSimplified reads the file, whatever the mirror holds:
\* it fails when the file cannot be read or decoded, and otherwise returns
\* one entry per release of the file, in order, entry i with the tag and
\* the prerelease flag of release i and is-latest set exactly when that tag
\* is the tag of the first release; an empty list gives an empty result and
\* no error.
C23_SimplifiedMirrorsTheFile ==
    SimplifiedReturned =>
        IF ~(fileAtCall.exists /\ Unmarshal(fileAtCall.data).ok)
        THEN ret.err # NoErr /\ ret.val = NilSlice
        ELSE LET F == Unmarshal(fileAtCall.data).val.elems
             IN  /\ ret.err = NoErr
                 /\ Len(ret.val.elems) = Len(F)
                 /\ \A i \in DOMAIN F :
                       /\ ret.val.elems[i].TagName = F[i].TagName
                       /\ ret.val.elems[i].IsPrerelease = F[i].Prerelease
                       /\ ret.val.elems[i].IsLatest <=> (F[i].TagName = F[1].TagName)

C23_Witness ==
    /\ SimplifiedReturned
    /\ ret.err = NoErr
    /\ Len(ret.val.elems) = 2
    /\ ret.val.elems[1].IsLatest /\ ~ret.val.elems[2].IsLatest
    /\ getCleanedVersionTag(ret.val.elems[1].TagName)
          = getCleanedVersionTag(ret.val.elems[2].TagName)
    /\ prev.op = "SyncReleases"

GetBinaryReturned == pc = "ret" /\ ret.op = "GetBinary"

\* <releases-dir>/solc-<normalized version>[.exe] for the tag of the call.
PathOfCall ==
    << "solc-" >> \o getCleanedVersionTag(ret.arg.TagName)
                  \o (IF gOOS = "windows" THEN << ".exe" >> ELSE << >>)

\* The file at that path existed when the call began.
FileOfCallExisted ==
    PathOfCall \in DOMAIN binsAtCall /\ binsAtCall[PathOfCall].exists

\* C24: GetBinary returns a path, the deterministic one, exactly when the
\* normalized version matches a release of the list and the file at that
\* path exists; otherwise it fails with a not-found error; a "v" in front
\* of the version changes nothing; no binary file is created or deleted.
C24_GetBinaryNeedsReleaseAndFile ==
    GetBinaryReturned =>
        /\ bins = binsAtCall
        /\ SourceReadableAtCall =>
              IF MatchesAtCall # {} /\ FileOfCallExisted
              THEN ret.err = NoErr /\ ret.val = MkSlice(PathOfCall)
              ELSE /\ ret.err.kind \in {"notfound", "empty"}
                   /\ ret.val = MkSlice(<< >>)
        /\ ~SourceReadableAtCall => (ret.err # NoErr /\ ret.val = MkSlice(<< >>))
        /\ LET r == BinaryResult(fileAtCall, mirrorAtCall, binsAtCall,
                                 << "v" >> \o ret.arg.TagName)
           IN  r.err = ret.err /\ MkSlice(r.path) = ret.val

C24_Witness ==
    /\ GetBinaryReturned
    /\ ret.arg.TagName = << "v", "1" >>
    /\ gOOS = "windows"
    /\ ret.err = NoErr
    /\ ret.val = MkSlice(<< "solc-", "1", ".exe" >>)

RemoveBinaryReturned == pc = "ret" /\ ret.op = "RemoveBinary"

\* What RemoveBinary leaves on disk and what it returns, but for the mirror:
\* on a failure nothing changes; on success exactly the file of the version
\* is gone, GetBinary and a second RemoveBinary of that version then fail
\* with not-found, and the cache file is as it was.
RemoveBinaryOnDisk ==
    /\ file = fileAtCall
    /\ IF MatchesAtCall # {} /\ FileOfCallExisted /\ SourceReadableAtCall
       THEN /\ ret.err = NoErr
            /\ ~bins[PathOfCall].exists
            /\ \A f \in DOMAIN bins : f # PathOfCall => bins[f] = binsAtCall[f]
            /\ BinaryResult(file, localReleases, bins, ret.arg.TagName).err.kind
                  = "notfound"
       ELSE /\ ret.err # NoErr
            /\ SourceReadableAtCall => ret.err.kind \in {"notfound", "empty"}
            /\ bins = binsAtCall

\* C25 (as stated): RemoveBinary deletes the file of the version and
\* nothing else, and leaves the mirror as it was, on failure and on success.
C25_RemoveBinaryKeepsMirror ==
    RemoveBinaryReturned => (RemoveBinaryOnDisk /\ localReleases = mirrorAtCall)

\* C25 (amended): as stated, except that a call made with the mirror unset
\* loads the mirror from the cache file when the file decodes; a set mirror
\* is left as it was.
C25_RemoveBinaryLoadsUnsetMirror ==
    RemoveBinaryReturned =>
        /\ RemoveBinaryOnDisk
        /\ localReleases =
              IF /\ mirrorAtCall.isNil
                 /\ fileAtCall.exists
                 /\ Unmarshal(fileAtCall.data).ok
              THEN Unmarshal(fileAtCall.data).val
              ELSE mirrorAtCall

C25_Witness ==
    /\ RemoveBinaryReturned
    /\ ret.err = NoErr
    /\ mirrorAtCall.isNil
    /\ ~localReleases.isNil
    /\ \E f \in DOMAIN bins : f # PathOfCall /\ bins[f].exists

\* C26: the Timeout of the manager's http client is the timeout its Config
\* holds, whatever SetHttpClientTimeout calls were made before or after New.
C26_ClientTimeoutFollowsConfig ==
    (~manager.isNil /\ ~config.isNil) =>
        manager.timeout = config.httpClientTimeout

\* A configuration call has just returned.
ConfigCallReturns(o) == pc = "idle" /\ pc' = "ret" /\ ret'.op = o

\* C30: New returns a manager exactly for a non-nil configuration whose
\* releases path is an existing, readable directory and whose releases URL is
\* not empty, and otherwise an error and a nil manager; SetReleasesPath with
\* an invalid path returns an error and leaves the releases path unchanged,
\* and with a valid one sets it.
C30_NewAndSetReleasesPathValidate ==
    [][ /\ ConfigCallReturns("New") =>
             /\ (ret'.err = NoErr) <=>
                    /\ ~config.isNil
                    /\ PathKind[config.releasesPath] = "dir"
                    /\ config.releasesUrl # ""
             /\ manager'.isNil <=> (ret'.err # NoErr)
             /\ config' = config
        /\ ConfigCallReturns("SetReleasesPath") =>
             /\ (ret'.err = NoErr) <=> (PathKind[ret'.arg.path] = "dir")
             /\ config'.releasesPath =
                    IF ret'.err = NoErr THEN ret'.arg.path
                    ELSE config.releasesPath
             /\ config'.releasesUrl = config.releasesUrl
      ]_vars

\* New has returned a manager for the default configuration, and a later
\* SetReleasesPath has refused a path that is a plain file and kept the old one.
C30_Witness ==
    /\ pc = "ret" /\ ret.op = "SetReleasesPath" /\ ret.err # NoErr
    /\ PathKind[ret.arg.path] = "file"
    /\ ~manager.isNil
    /\ config.releasesPath = "releases"

\* SanitizeArguments has returned.
SanitizeReturned == ccOut.op = "SanitizeArguments"
\* Validate has returned.
ValidateReturned == ccOut.op = "Validate"
\* The positions of the arguments that contain "-" and are not allowed.
OffendingAt ==
    { i \in 1..Len(ccArgs.elems) :
        /\ \E k \in 1..Len(ccArgs.elems[i]) : ccArgs.elems[i][k] = "-"
        /\ ccArgs.elems[i] \notin allowedArgs }

MissingRequired ==
    { << "-", "-", "overwrite" >>, << "-", "-", "combined", "-", "json" >>,
      << "-" >> } \ { ccArgs.elems[i] : i \in 1..Len(ccArgs.elems) }
\* The version is three non-empty runs of digits with "." between them.
DigitsDotDigitsDotDigits(v) ==
    \E i, j \in 1..Len(v) :
        /\ i < j /\ v[i] = "." /\ v[j] = "."
        /\ \A part \in { SubSeq(v, 1, i - 1), SubSeq(v, i + 1, j - 1),
                         SubSeq(v, j + 1, Len(v)) } :
              /\ part # << >>
              /\ \A k \in 1..Len(part) : IsDigit(part[k])

\* C29: Validate succeeds exactly when no argument offends, the three
\* required arguments are present and the version is digits.digits.digits;
\* it reports an offending argument before a missing required one, and a
\* missing required one before an invalid version.
C29_ValidateOrder ==
    ValidateReturned =>
        /\ (ccOut.err = NoCcErr) <=>
              /\ OffendingAt = {}
              /\ MissingRequired = {}
              /\ DigitsDotDigitsDotDigits(ccVersion)
        /\ OffendingAt # {} => ccOut.err.kind = "invalid argument"
        /\ (OffendingAt = {} /\ MissingRequired # {}) =>
              /\ ccOut.err.kind = "missing required argument"
              /\ ccOut.err.arg \in MissingRequired
        /\ (OffendingAt = {} /\ MissingRequired = {}
              /\ ~DigitsDotDigitsDotDigits(ccVersion)) =>
              ccOut.err = CcErr("invalid compiler version", ccVersion)

\* The version v0.8.21 is refused although every argument is in order.
C29_Witness ==
    /\ ValidateReturned
    /\ OffendingAt = {}
    /\ MissingRequired = {}
    /\ ccVersion = << "v", "0", ".", "8", ".", "2", "1" >>
    /\ ccOut.err.kind = "invalid compiler version"

\* C27: during a fetch round the completed-downloads counter is never
\* written by one goroutine while another goroutine reads or writes it.
C27_CounterNotAccessedConcurrently ==
    ~(consumerPc = "incr" /\ tickerPc = "log")

\* The listing request for page n was answered with page n of the remote.
Truthful(n) ==
    reqLog[n].resp = [kind |-> "http", status |-> StatusOK,
                      body |-> PageBody(remote, n)]
\* The loop of SyncReleases has ended on an empty page.
LoopLeft ==
    \/ pc \in { "SR_open", "SR_write" }
    \/ pc = "ret" /\ ret.op = "SyncReleases"
         /\ ret.err.kind \notin { "network", "decode" }
\* The listing requests are sent one after the other, pages 1, 2, ... each
\* once and each only after the page before it was decoded and found
\* non-empty, and never more than one past the remote's last page.
PagingInOrder ==
    /\ \A n \in 1..Len(reqLog) : reqLog[n].page = n
    /\ \A n \in 1..(Len(reqLog) - 1) : PageOutcome(reqLog[n].resp) = "more"
    /\ Len(reqLog) <= Len(remote) + 1
    /\ (LoopLeft /\ \A n \in 1..Len(reqLog) : Truthful(n)) =>
           Len(reqLog) = Len(remote) + 1

\* C31: pagination is sequential and ends: page N+1 is requested only after
\* page N was consumed; with k non-empty pages on the remote and truthful
\* answers SyncReleases sends exactly the requests for pages 1..k+1 in that
\* order; and a SyncReleases that is fetching pages leaves its loop.
C31_PagingSequentialAndEnds ==
    /\ [](op = "SyncReleases" => PagingInOrder)
    /\ (op = "SyncReleases" /\ pc = "SR_page") ~> (pc # "SR_page")

\* SyncReleases has returned the list after three requests to a remote of
\* two non-empty pages.
C31_Witness ==
    /\ pc = "ret" /\ ret.op = "SyncReleases" /\ ret.err = NoErr
    /\ Len(remote) = 2
    /\ Len(reqLog) = 3
    /\ \A n \in 1..3 : Truthful(n)

\* C32: normalization removes a leading "v" and nothing else: the cleaned
\* tag is the tag without its first character when that is "v", else the tag.
C32_OnlyLeadingVRemoved ==
    tagOut # << >> =>
        tagOut[1] = IF tagIn # << >> /\ Head(tagIn) = "v" THEN Tail(tagIn)
                    ELSE tagIn

\* Sync or SyncOne is inside its SyncReleases call.
InReleasePhase ==
    op \in { "Sync", "SyncOne" } /\ pc \in { "SR_page", "SR_open", "SR_write" }

\* C33: while Sync or SyncOne is inside SyncReleases no unit is dispatched,
\* no download request is sent and no binary changes; SyncBinaries is entered
\* only from the step that wrote the whole list to the cache file and set the
\* mirror, after the empty last page; and a failing SyncReleases makes the
\* call return that error with nothing dispatched and every binary as it was.
C33_BinariesOnlyAfterReleasesPersisted ==
    [][ InReleasePhase =>
          /\ bins' = bins
          /\ dlLog' = {}
          /\ \A i \in DOMAIN units' : units'[i].st = "none"
          /\ pc' = "SB_loop" =>
               /\ reqLog # << >>
               /\ PageOutcome(reqLog[Len(reqLog)].resp) = "empty"
               /\ file' = [exists |-> TRUE, data |-> Marshal(allVersions)]
               /\ localReleases' = allVersions
               /\ sbVersions' = allVersions.elems
          /\ pc' \notin { "SR_page", "SR_open", "SR_write", "SB_loop" } =>
               /\ pc' = "ret"
               /\ ret'.err.kind \in { "network", "decode", "io" }
               /\ bins' = binsAtCall
      ]_vars

\* Sync fetched a non-empty list, failed to write it, and returned the
\* error although binaries were missing.
C33_Witness ==
    /\ pc = "ret" /\ ret.op = "Sync" /\ ret.err.kind = "io"
    /\ allVersions.elems # << >>
    /\ dlLog = {}
    /\ bins = binsAtCall
    /\ \E f \in DOMAIN bins : ~bins[f].exists

\* C34: a request carries an Authorization header only when a token is
\* configured: with the empty token no listing or download request has one.
C34_NoTokenNoAuthorizationHeader ==
    config.personalAccessToken = "" =>
        \A q \in authLog : ~q.header.present

\* The first asset of release v, in asset order, whose name contains the
\* platform token; meaningful when there is one.
FirstPlatformAsset(v) ==
    LET d == GetDistributionForAsset(gOOS)
        hits == { k \in 1..Len(v.Assets) : Contains(v.Assets[k].Name, d) }
    IN  v.Assets[CHOOSE k \in hits : \A m \in hits : k <= m]

\* C35: an iteration of the round's loop dispatches a unit for its release
\* exactly when the release passes the version filter, has an asset for the
\* platform and its destination file is absent, and touches no other unit;
\* the total used for progress is the number of dispatched units; and every
\* download request goes to the first platform asset of its unit's release.
C35_OneUnitPerMissingBinary ==
    [][ /\ (pc = "SB_loop" /\ idx' = idx + 1) =>
             /\ (units'[idx].st # "none") <=>
                   /\ \/ limitVersion = << >>
                      \/ getCleanedVersionTag(sbVersions[idx].TagName) = limitVersion
                   /\ HasPlatformAsset(sbVersions[idx])
                   /\ ~bins[DestOf(sbVersions[idx])].exists
             /\ \A j \in DOMAIN units \ { idx } : units'[j] = units[j]
        /\ totalDownloads' =
               Cardinality({ j \in DOMAIN units' : units'[j].st # "none" })
        /\ \A q \in authLog' :
               q.req = "download" =>
                   /\ units'[q.unit].st # "none"
                   /\ q.url = FirstPlatformAsset(sbVersions'[q.unit]).BrowserDownloadURL
      ]_vars

\* On windows a round has dispatched one unit of two releases, for the
\* release with two windows assets, and its request went to the first.
C35_Witness ==
    /\ RoundReturned
    /\ gOOS = "windows"
    /\ Len(sbVersions) = 2
    /\ totalDownloads = 1
    /\ \E q \in authLog : q.req = "download" /\ q.url = "b-win"

\* The download goroutine of unit i is running.
Running(i) == units[i].st \notin { "none", "done" }

\* C36: within a round no two running units have the same destination path.
C36_RunningUnitsHaveDistinctDestinations ==
    \A i, j \in DOMAIN units :
        (i # j /\ Running(i) /\ Running(j)) =>
            DestOf(sbVersions[i]) # DestOf(sbVersions[j])

\* C37: after a round every destination file that exists was downloaded in
\* full and made executable: no failed unit leaves a partial file behind.
C37_NoPartialBinaryAfterRound ==
    RoundReturned =>
        \A f \in DOMAIN bins :
            bins[f].exists => (bins[f].content = "complete" /\ bins[f].mode = "rwx")

\* Units that sent an error, and units that sent a progress item.
SentError == { i \in DOMAIN units : units[i].st = "done" /\ units[i].out # "ok" }
SentProgress ==
    { i \in DOMAIN units : units[i].st = "done" /\ units[i].out # "cancelled" }
\* Progress items the consumer goroutine has taken from the channel.
ProgressTaken == completedDownloads + (IF consumerPc = "incr" THEN 1 ELSE 0)
\* The channels of the round are used within their capacity and never after
\* close.
ChannelsSafe ==
    /\ Cardinality(Dispatched) <= Len(sbVersions)
    /\ Len(errorsCh) = Cardinality(SentError)
    /\ \A a, b \in 1..Len(errorsCh) :
           a # b => errorsCh[a].unit # errorsCh[b].unit
    /\ progressCh + ProgressTaken = Cardinality(SentProgress)
    /\ \A i \in DOMAIN units :
           Running(i) =>
               /\ Len(errorsCh) < Len(sbVersions)
               /\ progressCh < Len(sbVersions)
               /\ ~chClosed

\* C38: the dispatched units never outnumber the channel capacity, each unit
\* sends at most one error and one progress item, a running unit always finds
\* room in both channels and never an already closed channel; and with every
\* goroutine of the round running on, SyncBinaries returns.
C38_ChannelsNeverBlockAndRoundEnds ==
    /\ [](pc \in { "SB_loop", "SB_wait", "SB_drain" } => ChannelsSafe)
    /\ (pc \in { "SB_loop", "SB_wait", "SB_drain" }) ~> (pc = "ret")

\* A round of two units has returned, both having sent an error and one of
\* them a progress item as well.
C38_Witness ==
    /\ RoundReturned
    /\ Len(sbVersions) = 2
    /\ Len(errorsCh) = 2
    /\ Cardinality(SentProgress) = 1

\* C39: once SyncBinaries has returned, the ticker goroutine and the
\* consumer goroutine of the round both end, cancelled context or not.
C39_HelpersEndAfterRound ==
    RoundReturned ~> (tickerPc = "exited" /\ consumerPc = "exited")

====
